---- MODULE Spec2Model ----
(***************************************************************************)
(* typefuzz: the seeded random source (xorshift32) and its fork, the       *)
(* property runner with its shrink loop, and the model runner.             *)
(*                                                                         *)
(* Numbers.  A JavaScript int32 is a TLA+ integer in -2^31 .. 2^31-1.      *)
(* Numbers that do not fit (an unsigned 32-bit value, a seed of 2^32) are  *)
(* "wide" numbers [hi, lo] standing for hi * 65536 + lo with lo in         *)
(* 0..65535.  A draw of a random source is the exact fraction num / den    *)
(* of two wide numbers.                                                    *)
(*                                                                         *)
(* Closures.  Every random source is a closure over its own `state`        *)
(* binding.  The bindings live in `heap` (a sequence of int32 cells); a    *)
(* source is the index of its cell.                                        *)
(***************************************************************************)
EXTENDS Integers, Sequences, FiniteSets, TLC

\* ------------------------------------------------------------------------
\* Bounds of the model
\* ------------------------------------------------------------------------
MaxDraws == 3

\* ------------------------------------------------------------------------
\* 32-bit integer arithmetic of JavaScript
\* ------------------------------------------------------------------------
Wide(h, l) == [hi |-> h, lo |-> l]

\* two's-complement bits of an int32, bit 0 first
Bits32(n) ==
  LET Of(m) == [i \in 0..31 |-> IF i = 31 THEN (IF n < 0 THEN 1 ELSE 0) ELSE (m \div (2^i)) % 2]
  IN  Of(IF n >= 0 THEN n ELSE (n + 2147483647) + 1)

RECURSIVE SumBits(_, _)
SumBits(b, i) == IF i < 0 THEN 0 ELSE b[i] * (2^i) + SumBits(b, i - 1)

FromBits32(b) ==
  LET Signed(low) == IF b[31] = 1 THEN (low - 2147483647) - 1 ELSE low
  IN  Signed(SumBits(b, 30))

\* a ^ b
BitXor(a, b) ==
  LET Xor(x, y) == FromBits32([i \in 0..31 |-> (x[i] + y[i]) % 2])
  IN  Xor(Bits32(a), Bits32(b))

\* n << k
ShiftLeft(n, k) ==
  LET Shifted(x) == FromBits32([i \in 0..31 |-> IF i >= k THEN x[i - k] ELSE 0])
  IN  Shifted(Bits32(n))

\* n >>> 0: the unsigned value of an int32
ToUint32(n) ==
  IF n >= 0 THEN Wide(n \div 65536, n % 65536)
            ELSE Wide((n \div 65536) + 65536, n % 65536)

\* w | 0: the low 32 bits of a number, read as an int32
ToInt32(w) ==
  LET h == w.hi % 65536
  IN  IF h >= 32768 THEN (h - 65536) * 65536 + w.lo ELSE h * 65536 + w.lo

\* the three xorshift32 steps of the random source closure
Xorshift32(state) ==
  LET Shifted(x, k) == FromBits32([i \in 0..31 |-> IF i + k <= 31 THEN x[i + k] ELSE 0])
      ShiftRightUnsigned(n, k) == Shifted(Bits32(n), k)      \* n >>> k
      Step1(x) == BitXor(x, ShiftLeft(x, 13))
      Step2(x) == BitXor(x, ShiftRightUnsigned(x, 17))
      Step3(x) == BitXor(x, ShiftLeft(x, 5))
  IN  Step3(Step2(Step1(state)))

Pow32 == Wide(65536, 0)

\* ------------------------------------------------------------------------
\* Random sources
\* ------------------------------------------------------------------------

\* initial value of `state` in createSeededRandomSource (0 is remapped to
\* 0x9e3779b9) and of `x` in createSeededRng
InitialState(impl, seed) ==
  LET Remapped(state) == IF state = 0 THEN ToInt32(Wide(40503, 31161)) ELSE state
  IN  IF impl = "createSeededRandomSource" THEN Remapped(ToInt32(seed)) ELSE ToInt32(seed)

\* the value returned by one call of the closure, from the updated state
DrawValue(impl, state) ==
  IF impl = "createSeededRandomSource"
    THEN [num |-> ToUint32(state), den |-> Pow32]
    ELSE [num |-> ToUint32(state), den |-> Wide(65535, 65535)]   \* 0xffffffff

\* (variant: one `state` binding shared by all closures)
NewSource_shared(h, impl, seed) ==
  [heap |-> IF h = <<>> THEN <<InitialState(impl, seed)>>
                        ELSE [h EXCEPT ![1] = InitialState(impl, seed)],
   src |-> 1]

\* allocation of a closure: a fresh `state` binding per call
NewSource(h, impl, seed) ==
  [heap |-> Append(h, InitialState(impl, seed)), src |-> Len(h) + 1]

\* (variant: only the first source is seeded, a later one starts from the
\* state the source created before it was left in)
createSeededRandomSource_unseeded(h, seed) ==
  IF h = <<>> THEN NewSource(h, "createSeededRandomSource", seed)
              ELSE [heap |-> Append(h, h[Len(h)]), src |-> Len(h) + 1]

createSeededRandomSource(h, seed) == NewSource(h, "createSeededRandomSource", seed)

createSeededRng(h, seed) == NewSource(h, "createSeededRng", seed)

createSource(h, impl, seed) ==
  IF impl = "createSeededRandomSource" THEN createSeededRandomSource(h, seed)
                                       ELSE createSeededRng(h, seed)

\* one call source(): advances the cell, returns the draw
CallSource(h, impl, src) ==
  LET Returned(next) == [heap |-> [h EXCEPT ![src] = next], value |-> DrawValue(impl, next)]
  IN  Returned(Xorshift32(h[src]))

\* (variant: the child is the parent closure itself)
forkRandomSource_shared(h, parent) ==
  LET Child(drawn) == [heap |-> drawn.heap, src |-> parent]
  IN  Child(CallSource(h, "createSeededRandomSource", parent))

\* forkRandomSource(parent), parent made by createSeededRandomSource
forkRandomSource(h, parent) ==
  \* Math.floor(v * 0x100000000) of a draw v = num / 2^32 is num
  LET Child(drawn) == createSeededRandomSource(drawn.heap, drawn.value.num)
  IN  Child(CallSource(h, "createSeededRandomSource", parent))

\* Math.floor(v * n) for a draw v = num / den and an integer 1 <= n < 2^15
FloorTimes(v, n) ==
  LET Floor(a, b) == IF v.den = Pow32 THEN a
                     ELSE IF b.hi = 65535 /\ b.lo >= 65535 - a THEN a + 1 ELSE a
      Split(hiN, loN) == Floor(hiN \div 65536, Wide(hiN % 65536, loN % 65536))
      Carry(loN) == Split(v.num.hi * n + (loN \div 65536), loN)
  IN  Carry(v.num.lo * n)

\* randomInt(randomSource, min, max), given the draw
randomInt(v, min, max) == FloorTimes(v, max - min + 1) + min

\* ------------------------------------------------------------------------
\* JavaScript values
\* ------------------------------------------------------------------------
Undefined == [t |-> "undefined"]
Null == [t |-> "null"]
Num(n) == [t |-> "number", n |-> n]
Bool(b) == [t |-> "boolean", b |-> b]
Arr(a) == [t |-> "array", a |-> a]
\* a string, as the sequence of the indices of its characters in `chars`
Str(s) == [t |-> "string", s |-> s]
\* the Error a predicate or command throws when it rejects value v
Err(v) == [t |-> "error", of |-> v]

\* !v is false
Truthy(v) ==
  CASE v.t = "number"  -> v.n # 0
    [] v.t = "boolean" -> v.b
    [] v.t = "array"   -> TRUE
    [] v.t = "string"  -> Len(v.s) > 0
    [] v.t = "error"   -> TRUE
    [] OTHER           -> FALSE

\* a ?? b
Coalesce(a, b) == IF a = Undefined \/ a = Null THEN b ELSE a

\* numbers of a config object: an integer, v + 1/2, NaN, or a missing field
CInt(n) == [k |-> "int", v |-> n]
CFrac(n) == [k |-> "frac", v |-> n]
CNaN == [k |-> "nan", v |-> 0]
CUndefined == [k |-> "undefined", v |-> 0]

RangeError(msg) == [t |-> "RangeError", message |-> msg]

DefaultRuns == 100
DefaultMaxShrinks == 1000
DefaultMaxCommands == 20

\* (variant: the sign is not checked)
NotPositiveInteger_noSign(r) ==
  \/ ~(r.k \in {"int", "frac"})
  \/ ~(r.k = "int")

\* !Number.isFinite(r) || r <= 0 || !Number.isInteger(r)
NotPositiveInteger(r) ==
  \/ ~(r.k \in {"int", "frac"})
  \/ (r.k = "int" /\ r.v <= 0) \/ (r.k = "frac" /\ r.v < 0)
  \/ ~(r.k = "int")

normalizeRuns(runs) ==
  LET resolved == IF runs = CUndefined THEN CInt(DefaultRuns) ELSE runs
  IN  IF NotPositiveInteger(resolved)
        THEN [ok |-> FALSE, error |-> RangeError("runs must be a positive integer"), value |-> 0]
        ELSE [ok |-> TRUE, error |-> Undefined, value |-> resolved.v]

normalizeMaxShrinks(maxShrinks) ==
  LET resolved == IF maxShrinks = CUndefined THEN CInt(DefaultMaxShrinks) ELSE maxShrinks
  IN  IF NotPositiveInteger(resolved)
        THEN [ok |-> FALSE, error |-> RangeError("maxShrinks must be a positive integer"), value |-> 0]
        ELSE [ok |-> TRUE, error |-> Undefined, value |-> resolved.v]

\* seed >>> 0 of a finite number; the fraction of FracSeed is cut off
normalizeSeed(seed) == Wide(seed.hi % 65536, seed.lo)

\* (variant: one random source for all calls, created by the first one)
createRunState_global(h, config) ==
  LET State(seed, runs) ==
        IF ~runs.ok
          THEN [ok |-> FALSE, error |-> runs.error, heap |-> h, seed |-> seed, runs |-> 0,
                randomSource |-> 0]
          ELSE LET With(made) ==
                     [ok |-> TRUE, error |-> Undefined, heap |-> made.heap, seed |-> seed,
                      runs |-> runs.value, randomSource |-> made.src]
               IN  With(IF h = <<>> THEN createSeededRandomSource(h, seed)
                                    ELSE [heap |-> h, src |-> 1])
  IN  State(normalizeSeed(config.seed), normalizeRuns(config.runs))

\* createRunState(config): validates, then creates the run's random source
createRunState(h, config) ==
  LET State(seed, runs) ==
        IF ~runs.ok
          THEN [ok |-> FALSE, error |-> runs.error, heap |-> h, seed |-> seed, runs |-> 0,
                randomSource |-> 0]
          ELSE LET With(made) ==
                     [ok |-> TRUE, error |-> Undefined, heap |-> made.heap, seed |-> seed,
                      runs |-> runs.value, randomSource |-> made.src]
               IN  With(createSeededRandomSource(h, seed))
  IN  State(normalizeSeed(config.seed), normalizeRuns(config.runs))

\* ------------------------------------------------------------------------
\* Arbitraries
\* ------------------------------------------------------------------------
IntArb(min, max) == [kind |-> "int", min |-> min, max |-> max]
BoolArb == [kind |-> "bool"]
ArrayArb(item, length) == [kind |-> "array", item |-> item, length |-> length]
StringArb(length) == [kind |-> "string", length |-> length]
\* createArbitrary(generate, shrink) of a user: generates like gen.int(min, max);
\* its shrinker yields the value itself and then the next larger value
CustomArb(min, max) == [kind |-> "custom", min |-> min, max |-> max]

\* generate of gen.int and gen.bool: one call of the source
GenerateScalar(arb, h, src) ==
  LET Value(r) ==
        [heap |-> r.heap,
         value |-> IF arb.kind \in {"int", "custom"}
                     THEN Num(randomInt(r.value, arb.min, arb.max))
                     ELSE Bool(r.value.num.hi >= 32768)]
  IN  Value(CallSource(h, "createSeededRandomSource", src))

RECURSIVE GenerateChars(_, _, _)
\* Array.from({ length }, () => chars[Math.floor(randomSource() * chars.length)])
GenerateChars(n, h, src) ==
  IF n = 0 THEN [heap |-> h, items |-> <<>>]
  ELSE LET Cons(drawn, rest) ==     \* chars.length is 36
             [heap |-> rest.heap, items |-> <<FloorTimes(drawn.value, 36)>> \o rest.items]
           Rest(drawn) == Cons(drawn, GenerateChars(n - 1, drawn.heap, src))
       IN  Rest(CallSource(h, "createSeededRandomSource", src))

RECURSIVE GenerateItems(_, _, _, _)
\* Array.from({ length }, () => arbitrary.generate(randomSource))
GenerateItems(item, n, h, src) ==
  IF n = 0 THEN [heap |-> h, items |-> <<>>]
  ELSE LET Cons(drawn, rest) == [heap |-> rest.heap, items |-> <<drawn.value>> \o rest.items]
           Rest(drawn) == Cons(drawn, GenerateItems(item, n - 1, drawn.heap, src))
       IN  Rest(GenerateScalar(item, h, src))

\* arbitrary.generate(randomSource)
Generate(arb, h, src) ==
  CASE arb.kind = "array" ->
         LET Items(r) == [heap |-> r.heap, value |-> Arr(r.items)]
         IN  Items(GenerateItems(arb.item, arb.length, h, src))
    [] arb.kind = "string" ->
         LET Joined(r) == [heap |-> r.heap, value |-> Str(r.items)]
         IN  Joined(GenerateChars(arb.length, h, src))
    [] OTHER -> GenerateScalar(arb, h, src)

RECURSIVE ShrinkIntFrom(_, _, _, _)
ShrinkIntFrom(current, target, min, max) ==
  IF current = target THEN <<>>
  ELSE LET next == IF current > target THEN (current + target) \div 2
                                       ELSE -((-(current + target)) \div 2)
       IN  IF next < min \/ next > max THEN <<>>
           ELSE <<Num(next)>> \o ShrinkIntFrom(next, target, min, max)

shrinkInt(value, min, max) ==
  IF value < min \/ value > max THEN <<>>
  ELSE ShrinkIntFrom(value, IF 0 >= min /\ 0 <= max THEN 0 ELSE min, min, max)

RECURSIVE ShrinkLengthsFrom(_)
ShrinkLengthsFrom(currentLength) ==
  IF currentLength = 0 THEN <<0>>
  ELSE <<currentLength>> \o ShrinkLengthsFrom(currentLength \div 2)

shrinkLengths(length) == IF length = 0 THEN <<>> ELSE ShrinkLengthsFrom(length \div 2)

replaceAt(items, index, value) == [items EXCEPT ![index] = value]

\* shrink of gen.int and gen.bool
ShrinkScalar(arb, value) ==
  IF arb.kind = "int"
    THEN IF value.t = "number" THEN shrinkInt(value.n, arb.min, arb.max) ELSE <<>>
    ELSE IF value.t = "boolean" /\ value.b THEN <<Bool(FALSE)>> ELSE <<>>

RECURSIVE FlatMapItems(_, _, _)
\* value.flatMap((item, index) => shrinkItem(item).map(s => replaceAt(value, index, s)))
FlatMapItems(item, a, index) ==
  IF index > Len(a) THEN <<>>
  ELSE LET Replaced(shrunk) == [j \in 1..Len(shrunk) |-> Arr(replaceAt(a, index, shrunk[j]))]
       IN  Replaced(ShrinkScalar(item, a[index])) \o FlatMapItems(item, a, index + 1)

shrinkArray(item, a) ==
  IF Len(a) = 0 THEN <<>>
  ELSE LET Prefixes(prefixLengths) ==
             [j \in 1..Len(prefixLengths) |-> Arr(SubSeq(a, 1, prefixLengths[j]))]
       IN  Prefixes(shrinkLengths(Len(a))) \o FlatMapItems(item, a, 1)

RECURSIVE ShrinkStringFrom(_, _)
\* the while loop of shrinkString
ShrinkStringFrom(s, length) ==
  IF length > 0 THEN <<Str(SubSeq(s, 1, length))>> \o ShrinkStringFrom(s, length \div 2)
  ELSE <<>>

shrinkString(s) ==
  IF Len(s) = 0 THEN <<>>
  ELSE <<Str(<<>>)>> \o ShrinkStringFrom(s, Len(s) \div 2)

\* Array.from(arbitrary.shrink(value))
Shrink(arb, value) ==
  CASE arb.kind = "array" ->
         IF value.t = "array" THEN shrinkArray(arb.item, value.a) ELSE <<>>
    [] arb.kind = "string" -> shrinkString(value.s)
    [] arb.kind = "custom" ->
         <<value>> \o (IF value.n < arb.max THEN <<Num(value.n + 1)>> ELSE <<>>)
    [] OTHER -> ShrinkScalar(arb, value)

scoreValue(value) ==
  CASE value.t = "number" -> IF value.n < 0 THEN -value.n ELSE value.n
    [] value.t = "string" -> Len(value.s)
    [] value.t = "array"  -> Len(value.a)
    [] OTHER              -> 0

\* ------------------------------------------------------------------------
\* Predicates: deterministic functions of the value
\* ------------------------------------------------------------------------
Measure(value) ==
  CASE value.t = "number"  -> value.n
    [] value.t = "array"   -> Len(value.a)
    [] value.t = "string"  -> Len(value.s)
    [] value.t = "boolean" -> IF value.b THEN 1 ELSE 0
    [] OTHER               -> 0

Returns(v) == [kind |-> "return", value |-> v]
Throws(e) == [kind |-> "throw", value |-> e]

\* what predicate(value) does
PredOutcome(pred, value) ==
  LET m == Measure(value)
  IN  CASE pred.k = "lessThan"       -> Returns(Bool(m < pred.t))
        [] pred.k = "even"           -> Returns(Bool(m % 2 = 0))
        [] pred.k = "equal"          -> Returns(Bool(m = pred.t))
        [] pred.k = "throwFrom"      -> IF m >= pred.t THEN Throws(Err(value)) ELSE Returns(Undefined)
        [] pred.k = "ladder"         -> IF m >= pred.t + 3 THEN Returns(Bool(FALSE))
                                        ELSE IF m = pred.t + 2 THEN Throws(Err(value))
                                        ELSE IF m = pred.t + 1 THEN Returns(Num(0))
                                        ELSE IF m = pred.t THEN Returns(Null)
                                        ELSE Returns(Undefined)
        [] pred.k = "throwThenFalse" -> IF m >= pred.t + 2 THEN Throws(Err(value))
                                        ELSE IF m >= pred.t THEN Returns(Bool(FALSE))
                                        ELSE Returns(Bool(TRUE))
        [] pred.k = "falseThenThrow" -> IF m >= pred.t + 2 THEN Returns(Bool(FALSE))
                                        ELSE IF m >= pred.t THEN Throws(Err(value))
                                        ELSE Returns(Undefined)
        [] pred.k = "falseThrowFalse" -> IF m >= pred.t + 3 THEN Returns(Bool(FALSE))
                                         ELSE IF m >= pred.t + 1 THEN Throws(Err(value))
                                         ELSE IF m >= pred.t THEN Returns(Bool(FALSE))
                                         ELSE Returns(Bool(TRUE))

\* (variant: any falsy result fails, `if (!result)`)
tryFailure_falsy(pred, value) ==
  LET Result(o) ==
        IF o.kind = "throw" THEN [failed |-> TRUE, error |-> o.value, raised |-> FALSE]
        ELSE IF ~Truthy(o.value) THEN [failed |-> TRUE, error |-> Undefined, raised |-> FALSE]
        ELSE [failed |-> FALSE, error |-> Undefined, raised |-> FALSE]
  IN  Result(PredOutcome(pred, value))

\* tryFailure(predicate, value); raised: the exception left tryFailure
tryFailure(pred, value) ==
  LET Result(o) ==
        IF o.kind = "throw" THEN [failed |-> TRUE, error |-> o.value, raised |-> FALSE]
        ELSE IF o.value = Bool(FALSE) THEN [failed |-> TRUE, error |-> Undefined, raised |-> FALSE]
        ELSE [failed |-> FALSE, error |-> Undefined, raised |-> FALSE]
  IN  Result(PredOutcome(pred, value))

\* an Error without the property `cause`
Absent == [t |-> "absent"]

\* createFailureError(failure): the Error thrown by fuzzAssert
createFailureError(failure) ==
  [t |-> "Error",
   cause |-> IF failure.error # Undefined THEN failure.error ELSE Absent,
   fuzzFailure |-> failure]

\* ------------------------------------------------------------------------
\* Model specs: state(), setup(), teardown and commands over a counter.
\* The model and the system are integers; a command is
\*   [name, arb, pre, run, check, limit]
\* ------------------------------------------------------------------------
None == [t |-> "none"]

Command(name, arb, pre, runKind, checkKind, limit) ==
  [name |-> name, arb |-> arb, pre |-> pre, run |-> runKind, check |-> checkKind,
   limit |-> limit]

\* cmd.precondition(model); pre = "none" is a command without precondition
PreHolds(cmd, model) ==
  CASE cmd.pre = "positive" -> model > 0
    [] cmd.pre = "zero"     -> model = 0
    [] cmd.pre = "never"    -> FALSE
    [] OTHER                -> TRUE

\* cmd.run(system, model, param)
RunCommand(cmd, system, model, param) ==
  LET n == IF param.t = "number" THEN param.n ELSE 0
  IN  CASE cmd.run = "add" ->
             [threw |-> FALSE, error |-> Undefined, system |-> system + n, model |-> model + n]
        [] cmd.run = "addThrow" ->
             IF system + n >= cmd.limit
               THEN [threw |-> TRUE, error |-> Err(param), system |-> system, model |-> model]
               ELSE [threw |-> FALSE, error |-> Undefined, system |-> system + n, model |-> model + n]
        [] cmd.run = "resetSystem" ->
             [threw |-> FALSE, error |-> Undefined, system |-> 0, model |-> model]
        [] cmd.run = "reset" ->
             [threw |-> FALSE, error |-> Undefined, system |-> 0, model |-> 0]
        [] OTHER ->
             [threw |-> FALSE, error |-> Undefined, system |-> system, model |-> model]

\* cmd.check(system, model, param)
CheckOutcome(cmd, system, model, param) ==
  CASE cmd.check = "equal"       -> Returns(Bool(system = model))
    [] cmd.check = "below"       -> Returns(Bool(system < cmd.limit))
    [] cmd.check = "notMultiple" -> Returns(Bool(system % cmd.limit # 0))
    [] cmd.check = "expectEqual" -> IF system = model THEN Returns(Undefined)
                                                      ELSE Throws(Err(Num(system)))
    [] cmd.check = "expectBelow" -> IF system < cmd.limit THEN Returns(Undefined)
                                                          ELSE Throws(Err(Num(system)))
    [] OTHER                     -> Returns(Undefined)

\* (variant: an exception of run is dropped and check is called all the same)
runStep_checkAfterThrow(cmd, index, system, model, param) ==
  LET RunEvent(r) ==
        [fn |-> "run", command |-> index, param |-> param, threw |-> r.threw,
         error |-> r.error, model |-> model]
      CheckEvent(outcome) ==
        [fn |-> "check", command |-> index, param |-> param, outcome |-> outcome]
      Checked(r, c) ==
        [failed |-> (c.kind = "throw" \/ c.value = Bool(FALSE)),
         error |-> IF c.kind = "throw" THEN c.value ELSE Undefined,
         system |-> r.system, model |-> r.model,
         events |-> <<RunEvent(r), CheckEvent(c)>>]
      AfterRun(r) == Checked(r, CheckOutcome(cmd, r.system, r.model, param))
  IN  AfterRun(RunCommand(cmd, system, model, param))

\* runStep(cmd, system, model, param): the result, the system and the model
\* as run left them, and the calls made
runStep(cmd, index, system, model, param) ==
  LET \* model: the model as it is handed to run; error: what run threw
      RunEvent(r) ==
        [fn |-> "run", command |-> index, param |-> param, threw |-> r.threw,
         error |-> r.error, model |-> model]
      CheckEvent(outcome) ==
        [fn |-> "check", command |-> index, param |-> param, outcome |-> outcome]
      Outcome(failed, error, r, events) ==
        [failed |-> failed, error |-> error, system |-> r.system, model |-> r.model,
         events |-> events]
      Checked(r, c) ==
        Outcome(c.kind = "throw" \/ c.value = Bool(FALSE),
                IF c.kind = "throw" THEN c.value ELSE Undefined,
                r, <<RunEvent(r), CheckEvent(c)>>)
      AfterRun(r) ==
        IF r.threw THEN Outcome(TRUE, r.error, r, <<RunEvent(r)>>)
        ELSE Checked(r, CheckOutcome(cmd, r.system, r.model, param))
  IN  AfterRun(RunCommand(cmd, system, model, param))

\* the Error a throwing teardown throws
TeardownError == [t |-> "error", of |-> [t |-> "teardown"]]

\* (variant: no try/catch around teardown(system))
safeTeardown_noCatch(spec) ==
  IF spec.teardown = "none" THEN [events |-> <<>>, raised |-> FALSE, error |-> Undefined]
  ELSE [events |-> <<[fn |-> "teardown", threw |-> (spec.teardown = "throws")]>>,
        raised |-> (spec.teardown = "throws"),
        error |-> IF spec.teardown = "throws" THEN TeardownError ELSE Undefined]

\* safeTeardown(spec.teardown, system): the calls it makes; raised: an
\* exception left safeTeardown
safeTeardown(spec) ==
  IF spec.teardown = "none" THEN [events |-> <<>>, raised |-> FALSE, error |-> Undefined]
  ELSE [events |-> <<[fn |-> "teardown", threw |-> (spec.teardown = "throws")]>>,
        raised |-> FALSE,
        error |-> Undefined]

\* finally { safeTeardown(spec.teardown, system) }: an exception that leaves
\* the finally block replaces the return value
Finally(ran, teardown) ==
  [ran EXCEPT !.events = @ \o teardown.events,
              !.raised = teardown.raised,
              !.thrown = teardown.error]

RECURSIVE PreconditionEvents(_, _, _)
\* the precondition calls of one filter over spec.commands
PreconditionEvents(spec, model, index) ==
  IF index > Len(spec.commands) THEN <<>>
  ELSE (IF spec.commands[index].pre = "none" THEN <<>>
        ELSE <<[fn |-> "precondition", command |-> index - 1,
                holds |-> PreHolds(spec.commands[index], model)]>>)
       \o PreconditionEvents(spec, model, index + 1)

NotFailed == [failed |-> FALSE, failedStep |-> -1, error |-> Undefined]

\* (variant: failedStep is the number of steps run, not the index of the last)
FailedAt_count(i, stepResult) ==
  IF stepResult.failed THEN [failed |-> TRUE, failedStep |-> i + 1, error |-> stepResult.error]
                       ELSE NotFailed

\* the result of an iteration or replay that stops at step i (from 0)
FailedAt(i, stepResult) ==
  IF stepResult.failed THEN [failed |-> TRUE, failedStep |-> i, error |-> stepResult.error]
                       ELSE NotFailed

\* model, system, steps, calls and result at the start of executeIteration
\* or replaySequence; left: the loop was left by break or return
Started(spec, h, steps) ==
  [heap |-> h, model |-> spec.state, system |-> spec.setup, steps |-> steps,
   events |-> <<[fn |-> "state"], [fn |-> "setup"]>>, result |-> NotFailed, left |-> FALSE,
   raised |-> FALSE, thrown |-> Undefined]

\* arb ? arb.generate(forkRandomSource(randomSource)) : undefined
GenerateParam(cmd, index, h, src) ==
  IF cmd.arb = None THEN [heap |-> h, value |-> Undefined, events |-> <<>>]
  ELSE LET Made(gen) ==
             [heap |-> gen.heap, value |-> gen.value,
              events |-> <<[fn |-> "generateParam", command |-> index, value |-> gen.value]>>]
           From(forked) == Made(Generate(cmd.arb, forked.heap, forked.src))
       IN  From(forkRandomSource(h, src))

\* steps.push and runStep for the chosen command (index from 1)
ExecChosen(spec, st, chosen, gen, pre) ==
  LET Ran(r) ==
        [st EXCEPT !.heap = gen.heap,
                   !.steps = Append(@, [commandIndex |-> chosen - 1, param |-> gen.value]),
                   !.model = r.model, !.system = r.system,
                   !.events = @ \o pre \o gen.events \o r.events,
                   !.result = FailedAt(Len(st.steps), r),
                   !.left = r.failed]
  IN  Ran(runStep(spec.commands[chosen], chosen - 1, st.system, st.model, gen.value))

\* one turn of the for loop of executeIteration
ExecTurn(spec, src, st) ==
  LET \* indices (from 1) of the commands whose precondition is absent or holds
      Eligible(model) ==
        SelectSeq([i \in 1..Len(spec.commands) |-> i],
                  LAMBDA i : PreHolds(spec.commands[i], model))
      Picked(d, chosen, pre) ==
        ExecChosen(spec, st, chosen,
                   GenerateParam(spec.commands[chosen], chosen - 1, d.heap, src), pre)
      Drawn(d, eligible, pre) ==
        Picked(d, eligible[randomInt(d.value, 0, Len(eligible) - 1) + 1], pre)
      Filtered(eligible, pre) ==
        IF Len(eligible) = 0
          THEN [st EXCEPT !.events = @ \o pre, !.left = TRUE]
          ELSE Drawn(CallSource(st.heap, "createSeededRandomSource", src), eligible, pre)
  IN  Filtered(Eligible(st.model), PreconditionEvents(spec, st.model, 1))

RECURSIVE ExecSteps(_, _, _, _, _)
\* the for loop of executeIteration, from step s on
ExecSteps(spec, src, s, stepCount, st) ==
  IF s >= stepCount \/ st.left THEN st
  ELSE ExecSteps(spec, src, s + 1, stepCount, ExecTurn(spec, src, st))

\* executeIteration(spec, randomSource, maxCommands)
executeIteration(spec, h, src, maxCommands) ==
  LET Counted(d) == Finally(ExecSteps(spec, src, 0, randomInt(d.value, 1, maxCommands),
                                      Started(spec, d.heap, <<>>)),
                            safeTeardown(spec))
  IN  Counted(CallSource(h, "createSeededRandomSource", src))

\* (variant: the replay runs a step without asking for its precondition)
ReplayTurn_unguarded(spec, step, i, st) ==
  LET Ran(r) ==
        [st EXCEPT !.model = r.model, !.system = r.system,
                   !.events = @ \o r.events,
                   !.result = FailedAt(i, r),
                   !.left = r.failed]
      Of(cmd) == Ran(runStep(cmd, step.commandIndex, st.system, st.model, step.param))
  IN  Of(spec.commands[step.commandIndex + 1])

\* one turn of the for loop of replaySequence, at index i (from 0)
ReplayTurn(spec, step, i, st) ==
  LET Ran(r, pre) ==
        [st EXCEPT !.model = r.model, !.system = r.system,
                   !.events = @ \o pre \o r.events,
                   !.result = FailedAt(i, r),
                   !.left = r.failed]
      Guarded(cmd, pre) ==
        IF cmd.pre # "none" /\ ~PreHolds(cmd, st.model)
          THEN [st EXCEPT !.events = @ \o pre, !.left = TRUE]
          ELSE Ran(runStep(cmd, step.commandIndex, st.system, st.model, step.param), pre)
      Of(cmd) ==
        Guarded(cmd, IF cmd.pre = "none" THEN <<>>
                     ELSE <<[fn |-> "precondition", command |-> step.commandIndex,
                             holds |-> PreHolds(cmd, st.model)]>>)
  IN  Of(spec.commands[step.commandIndex + 1])

RECURSIVE ReplaySteps(_, _, _)
\* the for loop of replaySequence, from index i (from 0) on
ReplaySteps(spec, i, st) ==
  IF i >= Len(st.steps) \/ st.left THEN st
  ELSE ReplaySteps(spec, i + 1, ReplayTurn(spec, st.steps[i + 1], i, st))

\* (variant: no try/finally, teardown only after the loop ran to its end)
replaySequence_noFinally(spec, steps) ==
  LET Ended(ran) == IF ran.left THEN ran ELSE Finally(ran, safeTeardown(spec))
  IN  Ended(ReplaySteps(spec, 0, Started(spec, <<>>, steps)))

\* replaySequence(spec, steps)
replaySequence(spec, steps) ==
  Finally(ReplaySteps(spec, 0, Started(spec, <<>>, steps)), safeTeardown(spec))

normalizeMaxCommands(maxCommands) ==
  LET resolved == IF maxCommands = CUndefined THEN CInt(DefaultMaxCommands) ELSE maxCommands
  IN  IF NotPositiveInteger(resolved)
        THEN [ok |-> FALSE, error |-> RangeError("maxCommands must be a positive integer"), value |-> 0]
        ELSE [ok |-> TRUE, error |-> Undefined, value |-> resolved.v]

normalizePositiveInt(value, defaultValue, name) ==
  LET resolved == IF value = CUndefined THEN CInt(defaultValue) ELSE value
  IN  IF NotPositiveInteger(resolved)
        THEN [ok |-> FALSE, error |-> RangeError(name), value |-> 0]
        ELSE [ok |-> TRUE, error |-> Undefined, value |-> resolved.v]

\* validateSpec(spec): the RangeError it throws, or Undefined
validateSpec(spec) ==
  IF Len(spec.commands) = 0
    THEN RangeError("model spec requires at least one command")
    ELSE Undefined

\* buildFailure(commands, shrunk, seed, runs, iteration)
buildFailure(commands, shrunk, seed, runs, iteration) ==
  [seed |-> seed, runs |-> runs, iterations |-> iteration, shrinks |-> shrunk.shrinks,
   sequence |-> [j \in 1..Len(shrunk.steps) |->
                   [name |-> commands[shrunk.steps[j].commandIndex + 1].name,
                    param |-> shrunk.steps[j].param]],
   failedStep |-> shrunk.failedStep,
   error |-> shrunk.error]

\* createModelError(failure): the Error thrown by assertModel
createModelError(failure) ==
  [t |-> "Error",
   cause |-> IF failure.error # Undefined THEN failure.error ELSE Absent,
   modelFailure |-> failure]

\* ------------------------------------------------------------------------
\* Collections with unique members, and gen.filter
\* ------------------------------------------------------------------------
AttemptsPerValue == 20

\* gen.uniqueArray, gen.set, gen.record and gen.dictionary with their
\* options: the smallest and largest size; key is the key arbitrary of a
\* dictionary, None elsewhere
CollectionArb(kind, key, item, min, max) ==
  [kind |-> kind, key |-> key, item |-> item, min |-> min, max |-> max]

\* (variant: no value is ever found in the array)
includes_never(items, value) == FALSE

\* items.includes(value), on primitive values
includes(items, value) == \E k \in 1..Len(items) : items[k] = value

\* new Set(items): the members in the order of their first occurrence
NewSet(items) ==
  LET Members(kept) ==
        [k \in 1..Cardinality(kept) |->
           items[CHOOSE i \in kept : Cardinality({ j \in kept : j <= i }) = k]]
  IN  [t |-> "set",
       a |-> Members({ i \in 1..Len(items) : \A j \in 1..(i - 1) : items[j] # items[i] })]

\* Object.fromEntries(entries), as the sequence Object.entries gives back:
\* a key keeps the place of its first occurrence and the value of its last,
\* keys that are array indices come first, in ascending order
fromEntries(entries) ==
  LET IsIndex(key) ==      \* characters 26..35 of `chars` are the digits 0..9
        /\ key.t = "string"
        /\ Len(key.s) >= 1
        /\ \A p \in 1..Len(key.s) : key.s[p] >= 26
        /\ Len(key.s) = 1 \/ key.s[1] # 26
      Below(a, b) ==
        \/ Len(a.s) < Len(b.s)
        \/ /\ Len(a.s) = Len(b.s)
           /\ \E p \in 1..Len(a.s) : a.s[p] < b.s[p] /\ \A q \in 1..(p - 1) : a.s[q] = b.s[q]
      Last(key) ==
        entries[CHOOSE i \in 1..Len(entries) :
                  /\ entries[i].key = key
                  /\ \A j \in (i + 1)..Len(entries) : entries[j].key # key]
      Rank(kept, i) ==
        IF IsIndex(entries[i].key)
          THEN 1 + Cardinality({ j \in kept : IsIndex(entries[j].key)
                                                /\ Below(entries[j].key, entries[i].key) })
          ELSE Cardinality({ j \in kept : IsIndex(entries[j].key) \/ j <= i })
      Ordered(kept) ==
        [k \in 1..Cardinality(kept) |->
           Last(entries[CHOOSE i \in kept : Rank(kept, i) = k].key)]
  IN  [t |-> "object",
       entries |-> Ordered({ i \in 1..Len(entries) :
                               \A j \in 1..(i - 1) : entries[j].key # entries[i].key })]

shrinkUniqueArray(value, valueGenerator) ==
  IF Len(value) = 0 THEN <<>>
  ELSE LET Prefixes(prefixLengths) ==
             [j \in 1..Len(prefixLengths) |-> Arr(SubSeq(value, 1, prefixLengths[j]))]
           \* .filter((shrunk) => !value.includes(shrunk)), seen on the
           \* array the shrunk member was put into
           Fresh(candidate) ==
             \E p \in 1..Len(value) : /\ candidate.a[p] # value[p]
                                      /\ ~includes(value, candidate.a[p])
       IN  Prefixes(shrinkLengths(Len(value)))
             \o SelectSeq(FlatMapItems(valueGenerator, value, 1), Fresh)

shrinkSet(value, valueGenerator) ==
  IF Len(value) = 0 THEN <<>>
  ELSE LET Prefixes(prefixLengths) ==
             [j \in 1..Len(prefixLengths) |-> NewSet(SubSeq(value, 1, prefixLengths[j]))]
           Sets(replaced) == [j \in 1..Len(replaced) |-> NewSet(replaced[j].a)]
       IN  Prefixes(shrinkLengths(Len(value))) \o Sets(FlatMapItems(valueGenerator, value, 1))

\* value: the entries of the record
shrinkRecord(value, arbitrary) ==
  IF Len(value) = 0 THEN <<>>
  ELSE LET Prefixes(prefixLengths) ==
             [j \in 1..Len(prefixLengths) |-> fromEntries(SubSeq(value, 1, prefixLengths[j]))]
           \* ({ ...value, [key]: shrunk })
           Spread(replaced) ==
             [j \in 1..Len(replaced) |->
                [t |-> "object",
                 entries |-> [k \in 1..Len(value) |->
                                [key |-> value[k].key, value |-> replaced[j].a[k]]]]]
       IN  Prefixes(shrinkLengths(Len(value)))
             \o Spread(FlatMapItems(arbitrary, [k \in 1..Len(value) |-> value[k].value], 1))

\* value: the entries of the dictionary
shrinkDictionary(value, keyGenerator, valueGenerator) ==
  LET \* delete record[key]; record[shrunkKey] = entryValue
      Moved(index, shrunkKey) ==
        fromEntries(SubSeq(value, 1, index - 1) \o SubSeq(value, index + 1, Len(value))
                      \o <<[key |-> shrunkKey, value |-> value[index].value]>>)
      RECURSIVE KeyCandidates(_)
      KeyCandidates(index) ==
        IF index > Len(value) THEN <<>>
        ELSE LET Renamed(shrunk) ==
                   [j \in 1..Len(shrunk) |-> Moved(index, shrunk[j])]
             IN  Renamed(Shrink(keyGenerator, value[index].key)) \o KeyCandidates(index + 1)
  IN  IF Len(value) = 0 THEN <<>>
      ELSE shrinkRecord(value, valueGenerator) \o KeyCandidates(1)

\* (variant: the candidates of the inner shrinker, unfiltered)
shrinkFiltered_unfiltered(value, arbitrary, predicate) == Shrink(arbitrary, value)

\* shrinkFiltered, for a predicate that returns
shrinkFiltered(value, arbitrary, predicate) ==
  LET Kept(candidate) == Truthy(PredOutcome(predicate, candidate).value)
  IN  SelectSeq(Shrink(arbitrary, value), Kept)

\* ------------------------------------------------------------------------
\* State
\* ------------------------------------------------------------------------
VARIABLES
  heap,        \* the `state` bindings of all random source closures
  seedIn,      \* the seed the sources were created from
  impl,        \* the constructor used
  srcA,        \* a source created from seedIn
  srcB,        \* a second source created independently from seedIn
  srcChild,    \* forkRandomSource(srcA), 0 before the fork
  drawsA,      \* values drawn from srcA by its user
  drawsB,      \* values drawn from srcB
  drawsChild,  \* values drawn from srcChild
  forkPos,     \* Len(drawsA) when srcA was forked
  pc,          \* where the call of fuzzAssert / assertModel stands
  version,     \* which property module runs: "part_005" or "property.ts"
  arbIn,       \* argument: the arbitrary
  predIn,      \* argument: the predicate
  config,      \* argument: the config object
  run,         \* locals of runProperty: seed, runs, maxShrinks, randomSource, iteration
  trial,       \* the failing trial: iteration, value, result of tryFailure
  fix,         \* locals of shrinkUntilFixedPoint: current, totalShrinks, lastError, round
  sel,         \* locals of selectBestCandidate; the candidates a shrinker yielded
  log,         \* every call of a user function so far, in order
  result,      \* what runProperty / runModel returned
  thrown,      \* what the call threw
  specIn,      \* argument of runModel: the model spec
  state,       \* the ShrinkState of shrinkSequence
  loops,       \* locals of shrinkSequence, shrinkChunks and shrinkParams, or of
               \* buildUniqueValues, generateFilteredValue and shrinkInt
  first        \* the arguments and outcome of the caller's first call, once it calls again

rngOnly == <<seedIn, impl, srcA, srcB, srcChild, drawsA, drawsB, drawsChild, forkPos>>

callVars == <<pc, log, result, thrown>>

propOnly == <<version, arbIn, predIn, config, run, trial, fix, sel>>

modelOnly == <<specIn, state, loops>>

vars == <<heap, rngOnly, callVars, propOnly, modelOnly, first>>

\* no call is in progress
RunnerIdle ==
  /\ pc = "idle"
  /\ log = <<>>
  /\ result = None
  /\ thrown = None
  /\ version = "part_005"
  /\ arbIn = None
  /\ predIn = None
  /\ config = None
  /\ run = None
  /\ trial = None
  /\ fix = None
  /\ sel = None
  /\ specIn = None
  /\ state = None
  /\ loops = None
  /\ first = None

\* no stand-alone random source exists
RngIdle ==
  /\ seedIn = Wide(0, 0)
  /\ impl = "createSeededRandomSource"
  /\ srcA = 0
  /\ srcB = 0
  /\ srcChild = 0
  /\ drawsA = <<>>
  /\ drawsB = <<>>
  /\ drawsChild = <<>>
  /\ forkPos = 0

\* ------------------------------------------------------------------------
\* The random source on its own
\* ------------------------------------------------------------------------

RngInit ==
  /\ seedIn \in { Wide(0, 0), Wide(0, 1), Wide(0, 1234), Wide(0, 123),
                  Wide(65536, 0),          \* 2^32
                  Wide(-1, 65535),         \* -1
                  Wide(24172, 64743) }     \* 1584200935, one step before state 0xffffffff
  /\ impl \in {"createSeededRandomSource", "createSeededRng"}
  /\ LET a == createSource(<<>>, impl, seedIn)
         b == createSource(a.heap, impl, seedIn)
     IN  /\ heap = b.heap
         /\ srcA = a.src
         /\ srcB = b.src
  /\ srcChild = 0
  /\ drawsA = <<>>
  /\ drawsB = <<>>
  /\ drawsChild = <<>>
  /\ forkPos = 0
  /\ RunnerIdle

DrawA ==
  /\ Len(drawsA) < MaxDraws
  /\ LET r == CallSource(heap, impl, srcA)
     IN  /\ heap' = r.heap
         /\ drawsA' = Append(drawsA, r.value)
  /\ UNCHANGED <<first, seedIn, impl, srcA, srcB, srcChild, drawsB, drawsChild, forkPos, callVars, propOnly, modelOnly>>

DrawB ==
  /\ Len(drawsB) < MaxDraws
  /\ LET r == CallSource(heap, impl, srcB)
     IN  /\ heap' = r.heap
         /\ drawsB' = Append(drawsB, r.value)
  /\ UNCHANGED <<first, seedIn, impl, srcA, srcB, srcChild, drawsA, drawsChild, forkPos, callVars, propOnly, modelOnly>>

ForkA ==
  /\ srcChild = 0
  /\ impl = "createSeededRandomSource"
  /\ LET r == forkRandomSource(heap, srcA)
     IN  /\ heap' = r.heap
         /\ srcChild' = r.src
  /\ forkPos' = Len(drawsA)
  /\ UNCHANGED <<first, seedIn, impl, srcA, srcB, drawsA, drawsB, drawsChild, callVars, propOnly, modelOnly>>

DrawChild ==
  /\ srcChild # 0
  /\ Len(drawsChild) < MaxDraws
  /\ LET r == CallSource(heap, "createSeededRandomSource", srcChild)
     IN  /\ heap' = r.heap
         /\ drawsChild' = Append(drawsChild, r.value)
  /\ UNCHANGED <<first, seedIn, impl, srcA, srcB, srcChild, drawsA, drawsB, forkPos, callVars, propOnly, modelOnly>>

RngNext == DrawA \/ DrawB \/ ForkA \/ DrawChild

SpecRng == RngInit /\ [][RngNext]_vars

\* ------------------------------------------------------------------------
\* fuzzAssert(arbitrary, predicate, config) and the runProperty it calls
\* ------------------------------------------------------------------------
MaxRuns == 3
MaxShrinks == 3

PropInit ==
  /\ heap = <<>>
  /\ RngIdle
  /\ pc = "call"
  /\ log = <<>>
  /\ result = None
  /\ thrown = None
  \* runProperty of part_005 and of property.ts; version "async" is
  \* runPropertyAsync of part_005, which a caller runs after runProperty
  /\ version \in {"part_005", "property.ts"}
  /\ arbIn \in { IntArb(0, 7), IntArb(1, 4), IntArb(-3, 3), IntArb(-4, -1), ArrayArb(IntArb(0, 3), 2),
                 BoolArb, StringArb(2), CustomArb(1, 4) }
  /\ predIn \in { [k |-> "lessThan", t |-> -10],      \* () => false
                  [k |-> "lessThan", t |-> 2],
                  [k |-> "lessThan", t |-> 100],      \* () => true
                  [k |-> "equal", t |-> 1],
                  [k |-> "throwFrom", t |-> 1],
                  [k |-> "ladder", t |-> 0],
                  [k |-> "throwThenFalse", t |-> 1],
                  [k |-> "falseThenThrow", t |-> 0],
                  [k |-> "falseThrowFalse", t |-> 1] }
  /\ config \in
       [seed : { Wide(0, 123), Wide(0, 42),
                 Wide(-1, 65535 - 4),     \* -5
                 [hi |-> 0, lo |-> 123, frac |-> 1] },   \* 123.5
        runs : { CInt(0), CInt(-1), CFrac(1), CNaN } \cup { CInt(n) : n \in 1..MaxRuns },
        maxShrinks : { CUndefined, CInt(0), CFrac(2), CNaN }
                       \cup { CInt(n) : n \in 1..MaxShrinks }]
  \* property.ts runs all maxShrinks rounds, and the shrinker of CustomArb
  \* never runs dry: only explicit, small budgets there
  /\ (version = "property.ts" \/ arbIn.kind = "custom") => config.maxShrinks # CUndefined
  /\ run = None
  /\ trial = None
  /\ fix = None
  /\ sel = None
  /\ specIn = None
  /\ state = None
  /\ loops = None
  /\ first = None

PredicateEvent(phase, iteration, value, res) ==
  [fn |-> "predicate", phase |-> phase, iteration |-> iteration, value |-> value,
   failed |-> res.failed, error |-> res.error]

\* the source a trial generates from: part_005 forks the run's source,
\* property.ts hands the run's source itself to generate
TrialSource(ver, h, randomSource) ==
  IF ver \in {"part_005", "async"} THEN forkRandomSource(h, randomSource)
                                   ELSE [heap |-> h, src |-> randomSource]

\* (variant: the run count reported as the failing iteration)
PropertyFailure_runs(r, t, f) ==
  [ok |-> FALSE,
   failure |-> [seed |-> r.seed, runs |-> r.runs, iterations |-> r.runs,
                shrinks |-> f.totalShrinks, counterexample |-> f.current,
                error |-> Coalesce(f.lastError, t.result.error)]]

\* the failure object runProperty returns
PropertyFailure(r, t, f) ==
  [ok |-> FALSE,
   failure |-> [seed |-> r.seed, runs |-> r.runs, iterations |-> t.iteration,
                shrinks |-> f.totalShrinks, counterexample |-> f.current,
                error |-> Coalesce(f.lastError, t.result.error)]]

\* createRunState, normalizeMaxShrinks, normalizeArbitrary
PropCall ==
  /\ pc = "call"
  /\ LET Validated(rs, ms) ==
           /\ heap' = rs.heap
           /\ IF ~rs.ok
                THEN /\ thrown' = rs.error
                     /\ pc' = "done"
                     /\ run' = run
                ELSE IF ~ms.ok
                  THEN /\ thrown' = ms.error
                       /\ pc' = "done"
                       /\ run' = run
                  ELSE /\ thrown' = thrown
                       /\ pc' = "loop"
                       /\ run' = [seed |-> rs.seed, runs |-> rs.runs, maxShrinks |-> ms.value,
                                  randomSource |-> rs.randomSource, iteration |-> 1]
     IN  Validated(createRunState(heap, config), normalizeMaxShrinks(config.maxShrinks))
  /\ UNCHANGED <<first, rngOnly, modelOnly, log, result, version, arbIn, predIn, config, trial, fix, sel>>

\* one iteration of the trial loop
PropTrial ==
  /\ pc = "loop"
  /\ run.iteration <= run.runs
  /\ LET Tried(source, gen, res) ==
           /\ heap' = gen.heap
           /\ log' = log \o << [fn |-> "generate", iteration |-> run.iteration,
                               start |-> source.heap[source.src], value |-> gen.value],
                               PredicateEvent("trial", run.iteration, gen.value, res) >>
           /\ IF res.raised
                THEN /\ thrown' = res.error
                     /\ pc' = "done"
                     /\ UNCHANGED <<run, trial, fix>>
                ELSE IF ~res.failed
                  THEN /\ run' = [run EXCEPT !.iteration = @ + 1]
                       /\ pc' = "loop"
                       /\ UNCHANGED <<thrown, trial, fix>>
                  ELSE /\ trial' = [iteration |-> run.iteration, value |-> gen.value,
                                    result |-> res]
                       /\ fix' = [current |-> gen.value, totalShrinks |-> 0,
                                  lastError |-> Undefined, round |-> 0]
                       /\ pc' = "shrink"
                       /\ UNCHANGED <<thrown, run>>
         Generated(source, gen) == Tried(source, gen, tryFailure(predIn, gen.value))
         Forked(source) == Generated(source, Generate(arbIn, source.heap, source.src))
     IN  Forked(TrialSource(version, heap, run.randomSource))
  /\ UNCHANGED <<first, rngOnly, modelOnly, result, version, arbIn, predIn, config, sel>>

\* the loop ran out: return { ok: true }
PropReturnOk ==
  /\ pc = "loop"
  /\ run.iteration > run.runs
  /\ result' = [ok |-> TRUE]
  /\ pc' = "returned"
  /\ UNCHANGED <<first, heap, rngOnly, modelOnly, log, thrown, propOnly>>

\* head of a round of shrinkUntilFixedPoint, up to the call of
\* selectBestCandidate.  In property.ts the rounds left after the budget is
\* used up return the state unchanged and call nothing; they are skipped.
PropShrinkRound ==
  /\ pc = "shrink"
  /\ IF fix.round >= run.maxShrinks \/ fix.totalShrinks >= run.maxShrinks
       THEN /\ result' = PropertyFailure(run, trial, fix)
            /\ pc' = "returned"
            /\ sel' = sel
       ELSE /\ sel' = [candidates |-> Shrink(arbIn, fix.current), index |-> 1,
                       best |-> Undefined, bestScore |-> Undefined, shrinks |-> 0,
                       lastError |-> IF version = "async" THEN fix.lastError ELSE Undefined,
                       remainingShrinks |-> run.maxShrinks - fix.totalShrinks]
            /\ pc' = "select"
            /\ result' = result
  /\ UNCHANGED <<first, heap, rngOnly, modelOnly, log, thrown, version, arbIn, predIn, config, run, trial, fix>>

\* the state of selectBestCandidate after a failing candidate
SelectAfterFailure(ver, st, candidate, failure) ==
  LET Replaced(shouldReplace) ==
        [st EXCEPT
           !.best = IF shouldReplace THEN candidate ELSE @,
           !.bestScore = IF shouldReplace THEN Num(scoreValue(candidate)) ELSE @,
           !.lastError = IF ver \in {"part_005", "async"}
                           THEN (IF shouldReplace THEN Coalesce(failure.error, @) ELSE @)
                           ELSE Coalesce(failure.error, @)]
  IN  Replaced(st.bestScore = Undefined \/ scoreValue(candidate) < st.bestScore.n)

\* selectBestCandidate: the predicate on the next candidate of the round
PropEvalCandidate ==
  /\ pc = "select"
  /\ sel.index <= Len(sel.candidates)
  /\ sel.shrinks < sel.remainingShrinks
  /\ LET Evaluated(candidate, failure, counted) ==
           /\ log' = Append(log, PredicateEvent("shrink", trial.iteration, candidate, failure))
           /\ IF failure.raised
                THEN /\ thrown' = failure.error
                     /\ pc' = "done"
                     /\ sel' = sel
                ELSE /\ sel' = IF failure.failed
                                 THEN SelectAfterFailure(version, counted, candidate, failure)
                                 ELSE counted
                     /\ pc' = "select"
                     /\ thrown' = thrown
     IN  Evaluated(sel.candidates[sel.index],
                   tryFailure(predIn, sel.candidates[sel.index]),
                   [sel EXCEPT !.index = @ + 1, !.shrinks = @ + 1])
  /\ UNCHANGED <<first, heap, rngOnly, modelOnly, result, version, arbIn, predIn, config, run, trial, fix>>

\* (variant: after a round without a failing candidate the last candidate
\* evaluated becomes the current value)
AsyncEndRound_last(f, st) ==
  [current |-> IF st.best # Undefined THEN st.best
               ELSE IF st.index > 1 THEN st.candidates[st.index - 1] ELSE f.current,
   totalShrinks |-> f.totalShrinks + st.shrinks,
   lastError |-> st.lastError,
   round |-> f.round + 1]

\* the end of a round of shrinkCounterexampleAsync: the evaluations of the
\* round are counted, then `bestCandidate === undefined` leaves the loop
AsyncEndRound(f, st) ==
  [current |-> IF st.best = Undefined THEN f.current ELSE st.best,
   totalShrinks |-> f.totalShrinks + st.shrinks,
   lastError |-> st.lastError,
   round |-> f.round + 1]

\* selectBestCandidate returns; rest of the round of shrinkUntilFixedPoint.
\* On `!best.next` part_005 leaves the loop; property.ts returns the state
\* and goes on with the next round.
PropEndRound ==
  /\ pc = "select"
  /\ ~(sel.index <= Len(sel.candidates) /\ sel.shrinks < sel.remainingShrinks)
  /\ IF version = "async"
       THEN /\ fix' = AsyncEndRound(fix, sel)
            /\ IF sel.best = Undefined
                 THEN /\ result' = PropertyFailure(run, trial, AsyncEndRound(fix, sel))
                      /\ pc' = "returned"
                 ELSE /\ pc' = "shrink"
                      /\ result' = result
       ELSE IF ~Truthy(sel.best)
         THEN IF version = "part_005"
                THEN /\ result' = PropertyFailure(run, trial, fix)
                     /\ pc' = "returned"
                     /\ fix' = fix
                ELSE /\ fix' = [fix EXCEPT !.round = @ + 1]
                     /\ pc' = "shrink"
                     /\ result' = result
         ELSE /\ fix' = [current |-> sel.best,
                         totalShrinks |-> fix.totalShrinks + sel.shrinks,
                         lastError |-> Coalesce(sel.lastError, fix.lastError),
                         round |-> fix.round + 1]
              /\ pc' = "shrink"
              /\ result' = result
  /\ sel' = None
  /\ UNCHANGED <<first, heap, rngOnly, modelOnly, log, thrown, version, arbIn, predIn, config, run, trial>>

\* fuzzAssert after runProperty returned
PropAssert ==
  /\ pc = "returned"
  /\ IF result.ok THEN thrown' = thrown
                  ELSE thrown' = createFailureError(result.failure)
  /\ pc' = "done"
  /\ UNCHANGED <<first, heap, rngOnly, modelOnly, log, result, propOnly>>

\* The caller calls again.  The closures of the first call stay allocated.
\* A replay with the default budget is left to part_005 and to arbitraries
\* whose shrinker runs dry (see PropInit).
PropAgain ==
  /\ pc = "done"
  /\ specIn = None
  /\ first = None
  \* the caller calls again with the same arguments ("same"), with the seed
  \* and runs of the reported failure ("replay"), or calls the async runner
  \* with the same arguments ("async")
  /\ \E mode \in {"same", "replay", "async"} :
       /\ mode = "replay" =>
            result # None /\ ~result.ok /\ version = "part_005" /\ arbIn.kind # "custom"
       /\ mode = "async" => version = "part_005"
       /\ first' = [mode |-> mode, config |-> config, version |-> version,
                    result |-> result, thrown |-> thrown]
       \* the replay snippet gives the reported seed and runs, nothing else
       /\ config' = IF mode = "replay"
                      THEN [seed |-> result.failure.seed,
                            runs |-> CInt(result.failure.runs), maxShrinks |-> CUndefined]
                      ELSE config
       /\ version' = IF mode = "async" THEN "async" ELSE version
  /\ pc' = "call"
  /\ log' = <<>>
  /\ result' = None
  /\ thrown' = None
  /\ run' = None
  /\ trial' = None
  /\ fix' = None
  /\ sel' = None
  /\ UNCHANGED <<heap, rngOnly, modelOnly, arbIn, predIn>>

PropNext ==
  \/ PropAgain
  \/ PropCall
  \/ PropTrial
  \/ PropReturnOk
  \/ PropShrinkRound
  \/ PropEvalCandidate
  \/ PropEndRound
  \/ PropAssert

SpecProp == PropInit /\ [][PropNext]_vars

\* ------------------------------------------------------------------------
\* runModel / assertModel
\* ------------------------------------------------------------------------
MaxCommands == 3

ModelSpec(name, teardown, commands) ==
  [name |-> name, state |-> 0, setup |-> 0, teardown |-> teardown, commands |-> commands]

NamedCommands ==
  { <<"counter",
      << Command("increment", IntArb(1, 3), "none", "add", "equal", 0),
         Command("reset", None, "positive", "reset", "equal", 0) >> >>,
    <<"buggyReset",
      << Command("increment", IntArb(1, 3), "none", "add", "equal", 0),
         Command("buggyReset", None, "positive", "resetSystem", "equal", 0) >> >>,
    <<"total",
      << Command("add", IntArb(0, 3), "none", "add", "below", 3),
         Command("noop", None, "none", "noop", "void", 0) >> >>,
    <<"throwingRun",
      << Command("push", IntArb(0, 3), "none", "addThrow", "void", 2),
         Command("clear", None, "positive", "reset", "expectEqual", 0) >> >>,
    <<"throwingCheck",
      << Command("add", IntArb(1, 3), "none", "add", "expectBelow", 3),
         Command("buggyReset", None, "positive", "resetSystem", "equal", 0) >> >>,
    <<"blocked",
      << Command("never", None, "never", "noop", "void", 0) >> >>,
    <<"gated",
      << Command("shift", IntArb(-1, 2), "zero", "add", "void", 0),
         Command("buggyReset", None, "positive", "resetSystem", "equal", 0) >> >>,
    <<"empty", << >> >> }

\* every command list with a teardown that is absent, returns, or throws
ModelSpecs ==
  { ModelSpec(c[1], t, c[2]) : c \in NamedCommands, t \in {"none", "ok", "throws"} }

ModelInit ==
  /\ heap = <<>>
  /\ RngIdle
  /\ pc = "mcall"
  /\ log = <<>>
  /\ result = None
  /\ thrown = None
  /\ version = "part_005"
  /\ arbIn = None
  /\ predIn = None
  /\ specIn \in ModelSpecs
  /\ config \in
       [seed : { Wide(0, 18), Wide(0, 42), Wide(0, 7) },
        runs : { CInt(0), CNaN, CInt(1), CInt(2) },
        maxCommands : { CInt(0), CFrac(1), CInt(-2), CNaN }
                        \cup { CInt(n) : n \in 2..MaxCommands },
        maxShrinks : { CUndefined, CInt(0), CFrac(2) }
                       \cup { CInt(n) : n \in {1, MaxShrinks} }]
  /\ run = None
  /\ trial = None
  /\ fix = None
  /\ sel = None
  /\ state = None
  /\ loops = None
  /\ first = None

\* the calls of one executeIteration or replaySequence, marked with the
\* phase they belong to
Tagged(events, phase, iteration) ==
  [e \in 1..Len(events) |-> events[e] @@ [phase |-> phase, iteration |-> iteration]]

\* validateSpec, createRunState, normalizeMaxCommands, normalizePositiveInt
ModelCall ==
  /\ pc = "mcall"
  /\ LET Validated(invalid, rs, mc, ms) ==
           IF invalid # Undefined
             THEN /\ thrown' = invalid
                  /\ pc' = "done"
                  /\ UNCHANGED <<heap, run>>
           ELSE IF ~rs.ok
             THEN /\ thrown' = rs.error
                  /\ pc' = "done"
                  /\ UNCHANGED <<heap, run>>
           ELSE IF ~mc.ok
             THEN /\ thrown' = mc.error
                  /\ pc' = "done"
                  /\ heap' = rs.heap
                  /\ run' = run
           ELSE IF ~ms.ok
             THEN /\ thrown' = ms.error
                  /\ pc' = "done"
                  /\ heap' = rs.heap
                  /\ run' = run
           ELSE /\ thrown' = thrown
                /\ pc' = "mloop"
                /\ heap' = rs.heap
                /\ run' = [seed |-> rs.seed, runs |-> rs.runs, maxCommands |-> mc.value,
                           maxShrinks |-> ms.value, randomSource |-> rs.randomSource,
                           iteration |-> 1]
     IN  Validated(validateSpec(specIn), createRunState(heap, config),
                   normalizeMaxCommands(config.maxCommands),
                   normalizePositiveInt(config.maxShrinks, DefaultMaxShrinks,
                                        "maxShrinks must be a positive integer"))
  /\ UNCHANGED <<first, rngOnly, log, result, version, arbIn, predIn, config, trial, fix, sel,
                 modelOnly>>

\* one iteration of runModel: fork, executeIteration, and on a failure the
\* first lines of shrinkSequence
ModelIteration ==
  /\ pc = "mloop"
  /\ run.iteration <= run.runs
  /\ LET Executed(ex) ==
           /\ heap' = ex.heap
           /\ log' = log \o Tagged(ex.events, "iteration", run.iteration)
           /\ thrown' = IF ex.raised THEN ex.thrown ELSE thrown
           /\ IF ex.raised
                THEN /\ pc' = "done"
                     /\ UNCHANGED <<run, state, loops>>
                ELSE IF ~ex.result.failed
                THEN /\ run' = [run EXCEPT !.iteration = @ + 1]
                     /\ pc' = "mloop"
                     /\ UNCHANGED <<state, loops>>
                ELSE /\ state' = [steps |-> ex.steps, failedStep |-> ex.result.failedStep,
                                  shrinks |-> 0, error |-> ex.result.error]
                     /\ loops' = [globalImproved |-> TRUE, chunks |-> None, params |-> None]
                     /\ pc' = "shrinkSequence"
                     /\ run' = run
         Forked(iterationSource) ==
           Executed(executeIteration(specIn, iterationSource.heap, iterationSource.src,
                                     run.maxCommands))
     IN  Forked(forkRandomSource(heap, run.randomSource))
  /\ UNCHANGED <<first, rngOnly, result, version, arbIn, predIn, config, trial, fix, sel,
                 specIn>>

\* the loop ran out: return { ok: true }
ModelReturnOk ==
  /\ pc = "mloop"
  /\ run.iteration > run.runs
  /\ result' = [ok |-> TRUE]
  /\ pc' = "mreturned"
  /\ UNCHANGED <<first, heap, rngOnly, log, thrown, propOnly, modelOnly>>

\* head of the while loop of shrinkSequence: enter shrinkChunks, or return
\* the state to runModel, which returns buildFailure(...)
ModelShrinkSequence ==
  /\ pc = "shrinkSequence"
  /\ IF loops.globalImproved /\ state.shrinks < run.maxShrinks
       THEN /\ loops' = [loops EXCEPT
                           !.globalImproved = FALSE,
                           !.chunks = [anyImproved |-> FALSE,
                                       chunkSize |-> Len(state.steps) \div 2,
                                       removedInPass |-> FALSE, i |-> 0]]
            /\ pc' = "shrinkChunks"
            /\ result' = result
       ELSE /\ result' = [ok |-> FALSE,
                          failure |-> buildFailure(specIn.commands, state, run.seed,
                                                   run.runs, run.iteration)]
            /\ pc' = "mreturned"
            /\ loops' = loops
  /\ UNCHANGED <<first, heap, rngOnly, log, thrown, propOnly, specIn, state>>

\* head of the outer while loop of shrinkChunks: start a pass, or return
\* anyImproved to shrinkSequence, which calls shrinkParams
ModelShrinkChunks ==
  /\ pc = "shrinkChunks"
  /\ IF loops.chunks.chunkSize >= 1 /\ state.shrinks < run.maxShrinks
       THEN /\ loops' = [loops EXCEPT !.chunks.removedInPass = FALSE, !.chunks.i = 0]
            /\ pc' = "chunkPass"
       ELSE /\ loops' = [loops EXCEPT
                           !.globalImproved = @ \/ loops.chunks.anyImproved,
                           !.params = [anyImproved |-> FALSE, passImproved |-> TRUE,
                                       i |-> 0, candidates |-> <<>>, j |-> 1]]
            /\ pc' = "shrinkParams"
  /\ UNCHANGED <<first, heap, rngOnly, log, result, thrown, propOnly, specIn, state>>

\* a spec that stands for any replay function: what replay(candidate) returns
\* for it is not determined by the candidate
AnyReplay == ModelSpec("anyReplay", "none", <<>>)

\* the results that replay(candidate) can give: that of replaySequence for
\* the spec of a runModel call, failed or not failed for any ReplayFn
replay(spec, candidate) ==
  IF spec = AnyReplay
    THEN { [events |-> <<[fn |-> "replay", failed |-> failed]>>,
            raised |-> FALSE, thrown |-> Undefined,
            result |-> IF failed THEN [failed |-> TRUE, failedStep |-> Len(candidate) - 1,
                                       error |-> Undefined]
                                 ELSE NotFailed] : failed \in BOOLEAN }
    ELSE { replaySequence(spec, candidate) }

\* (variant: only replays that do not fail are counted)
Accept_uncounted(st, candidate, replayed) ==
  [st EXCEPT !.steps = candidate, !.failedStep = replayed.failedStep,
             !.error = replayed.error]

\* (variant: the candidate is kept with its steps in reverse order)
Accept_reversed(st, candidate, replayed) ==
  [st EXCEPT !.steps = [k \in 1..Len(candidate) |-> candidate[Len(candidate) + 1 - k]],
             !.failedStep = replayed.failedStep,
             !.shrinks = @ + 1, !.error = replayed.error]

\* (variant: the step at which the replay failed is not taken over)
Accept_staleStep(st, candidate, replayed) ==
  [st EXCEPT !.steps = candidate, !.shrinks = @ + 1, !.error = replayed.error]

\* the assignments after a replay that failed
Accept(st, candidate, replayed) ==
  [st EXCEPT !.steps = candidate, !.failedStep = replayed.failedStep,
             !.shrinks = @ + 1, !.error = replayed.error]

\* one turn of the inner while loop of shrinkChunks
ModelChunkCandidate ==
  /\ pc = "chunkPass"
  /\ loops.chunks.i + loops.chunks.chunkSize <= Len(state.steps)
  /\ state.shrinks < run.maxShrinks
  /\ LET Replayed(candidate, replayed) ==
           /\ log' = log \o Tagged(replayed.events, "chunks", state.shrinks + 1)
           /\ thrown' = IF replayed.raised THEN replayed.thrown ELSE thrown
           /\ pc' = IF replayed.raised THEN "done" ELSE "chunkPass"
           /\ IF replayed.raised
                THEN UNCHANGED <<state, loops>>
                ELSE IF replayed.result.failed
                THEN /\ state' = Accept(state, candidate, replayed.result)
                     /\ loops' = [loops EXCEPT !.chunks.anyImproved = TRUE,
                                               !.chunks.removedInPass = TRUE]
                ELSE /\ state' = [state EXCEPT !.shrinks = @ + 1]
                     /\ loops' = [loops EXCEPT !.chunks.i = @ + 1]
         Candidate(candidate) ==
           IF Len(candidate) = 0
             THEN /\ loops' = [loops EXCEPT !.chunks.i = @ + 1]
                  /\ pc' = "chunkPass"
                  /\ UNCHANGED <<log, state, thrown>>
             ELSE \E replayed \in replay(specIn, candidate) : Replayed(candidate, replayed)
         \* steps without the chunk of chunkSize steps at index i (from 0)
         RemoveChunk(steps, i, chunkSize) ==
           SubSeq(steps, 1, i) \o SubSeq(steps, i + chunkSize + 1, Len(steps))
     IN  Candidate(RemoveChunk(state.steps, loops.chunks.i, loops.chunks.chunkSize))
  /\ UNCHANGED <<first, heap, rngOnly, result, propOnly, specIn>>

\* (variant: the chunk size is halved only after a pass that removed a chunk)
NextChunkSize_unhalved(chunks, steps) ==
  IF chunks.removedInPass THEN Len(steps) \div 2 ELSE chunks.chunkSize

\* (variant: a pass that removed nothing ends chunk removal)
NextChunkSize_dropped(chunks, steps) ==
  IF chunks.removedInPass THEN Len(steps) \div 2 ELSE 0

\* the chunk size after a pass of shrinkChunks
NextChunkSize(chunks, steps) ==
  IF chunks.removedInPass THEN Len(steps) \div 2 ELSE chunks.chunkSize \div 2

\* the inner while loop of shrinkChunks is left: the next chunk size
ModelChunkPassEnd ==
  /\ pc = "chunkPass"
  /\ ~(/\ loops.chunks.i + loops.chunks.chunkSize <= Len(state.steps)
       /\ state.shrinks < run.maxShrinks)
  /\ loops' = [loops EXCEPT !.chunks.chunkSize = NextChunkSize(loops.chunks, state.steps)]
  /\ pc' = "shrinkChunks"
  /\ UNCHANGED <<first, heap, rngOnly, log, result, thrown, propOnly, specIn, state>>

\* head of the while loop of shrinkParams: start a pass, or return
\* anyImproved to shrinkSequence
ModelShrinkParams ==
  /\ pc = "shrinkParams"
  /\ IF loops.params.passImproved /\ state.shrinks < run.maxShrinks
       THEN /\ loops' = [loops EXCEPT !.params.passImproved = FALSE, !.params.i = 0]
            /\ pc' = "paramPass"
       ELSE /\ loops' = [loops EXCEPT !.globalImproved = @ \/ loops.params.anyImproved]
            /\ pc' = "shrinkSequence"
  /\ UNCHANGED <<first, heap, rngOnly, log, result, thrown, propOnly, specIn, state>>

\* head of the for loop over the steps in shrinkParams, up to arb.shrink
ModelParamStep ==
  /\ pc = "paramPass"
  /\ IF loops.params.i < Len(state.steps) /\ state.shrinks < run.maxShrinks
       THEN LET Step(step, cmd) ==
                  IF cmd.arb = None
                    THEN /\ loops' = [loops EXCEPT !.params.i = @ + 1]
                         /\ pc' = "paramPass"
                    ELSE /\ loops' = [loops EXCEPT
                                        !.params.candidates = Shrink(cmd.arb, step.param),
                                        !.params.j = 1]
                         /\ pc' = "paramCandidates"
            IN  Step(state.steps[loops.params.i + 1],
                     specIn.commands[state.steps[loops.params.i + 1].commandIndex + 1])
       ELSE /\ loops' = loops
            /\ pc' = "shrinkParams"
  /\ UNCHANGED <<first, heap, rngOnly, log, result, thrown, propOnly, specIn, state>>

\* one turn of the loop over arb.shrink(step.param) in shrinkParams
ModelParamCandidate ==
  /\ pc = "paramCandidates"
  /\ loops.params.j <= Len(loops.params.candidates)
  /\ state.shrinks < run.maxShrinks
  /\ LET Replayed(candidate, replayed) ==
           /\ log' = log \o Tagged(replayed.events, "params", state.shrinks + 1)
           /\ thrown' = IF replayed.raised THEN replayed.thrown ELSE thrown
           /\ IF replayed.raised
                THEN /\ pc' = "done"
                     /\ UNCHANGED <<state, loops>>
                ELSE IF replayed.result.failed
                THEN /\ state' = Accept(state, candidate, replayed.result)
                     /\ loops' = [loops EXCEPT !.params.anyImproved = TRUE,
                                               !.params.passImproved = TRUE]
                     /\ pc' = "shrinkParams"
                ELSE /\ state' = [state EXCEPT !.shrinks = @ + 1]
                     /\ loops' = [loops EXCEPT !.params.j = @ + 1]
                     /\ pc' = "paramCandidates"
         Candidate(candidate) == Replayed(candidate, replaySequence(specIn, candidate))
         \* steps with the param at index i (from 0) replaced
         WithParam(steps, i, shrunkParam) ==
           [idx \in 1..Len(steps) |->
              IF idx = i + 1 THEN [steps[idx] EXCEPT !.param = shrunkParam] ELSE steps[idx]]
     IN  Candidate(WithParam(state.steps, loops.params.i,
                             loops.params.candidates[loops.params.j]))
  /\ UNCHANGED <<first, heap, rngOnly, result, propOnly, specIn>>

\* (variant: the step after the next one is visited)
ModelParamStepEnd_skip ==
  /\ pc = "paramCandidates"
  /\ ~(/\ loops.params.j <= Len(loops.params.candidates)
       /\ state.shrinks < run.maxShrinks)
  /\ loops' = [loops EXCEPT !.params.i = @ + 2]
  /\ pc' = "paramPass"
  /\ UNCHANGED <<first, heap, rngOnly, log, result, thrown, propOnly, specIn, state>>

\* the loop over the candidates is left without a failing one: next step
ModelParamStepEnd ==
  /\ pc = "paramCandidates"
  /\ ~(/\ loops.params.j <= Len(loops.params.candidates)
       /\ state.shrinks < run.maxShrinks)
  /\ loops' = [loops EXCEPT !.params.i = @ + 1]
  /\ pc' = "paramPass"
  /\ UNCHANGED <<first, heap, rngOnly, log, result, thrown, propOnly, specIn, state>>

\* assertModel after runModel returned
ModelAssert ==
  /\ pc = "mreturned"
  /\ IF result.ok THEN thrown' = thrown
                  ELSE thrown' = createModelError(result.failure)
  /\ pc' = "done"
  /\ UNCHANGED <<first, heap, rngOnly, log, result, propOnly, modelOnly>>

\* The caller calls again.  The closures of the first call stay allocated.
ModelAgain ==
  /\ pc = "done"
  /\ specIn # None
  /\ first = None
  \* the caller calls again with the same spec and config ("same"), with the
  \* seed and runs of the reported failure ("replay"), or with the same config
  \* and the same spec but a teardown that returns instead of throwing
  \* ("teardown")
  /\ \E mode \in {"same", "replay", "teardown"} :
       /\ mode = "replay" => result # None /\ ~result.ok
       /\ mode = "teardown" => specIn.teardown = "throws"
       /\ first' = [mode |-> mode, config |-> config, version |-> version,
                    result |-> result, thrown |-> thrown, log |-> log]
       \* the replay the docs give for a model failure: seed and runs
       /\ config' = IF mode = "replay"
                      THEN [seed |-> result.failure.seed,
                            runs |-> CInt(result.failure.runs),
                            maxCommands |-> CUndefined, maxShrinks |-> CUndefined]
                      ELSE config
       /\ specIn' = IF mode = "teardown" THEN [specIn EXCEPT !.teardown = "ok"] ELSE specIn
  /\ pc' = "mcall"
  /\ log' = <<>>
  /\ result' = None
  /\ thrown' = None
  /\ run' = None
  /\ state' = None
  /\ loops' = None
  /\ UNCHANGED <<heap, rngOnly, version, arbIn, predIn, trial, fix, sel>>

ModelNext ==
  \/ ModelAgain
  \/ ModelCall
  \/ ModelIteration
  \/ ModelReturnOk
  \/ ModelShrinkSequence
  \/ ModelShrinkChunks
  \/ ModelChunkCandidate
  \/ ModelChunkPassEnd
  \/ ModelShrinkParams
  \/ ModelParamStep
  \/ ModelParamCandidate
  \/ ModelParamStepEnd
  \/ ModelAssert

SpecModel == ModelInit /\ [][ModelNext]_vars

\* both runners
RunnersInit == PropInit \/ ModelInit

RunnersNext == PropNext \/ ModelNext

SpecRunners == RunnersInit /\ [][RunnersNext]_vars

\* ------------------------------------------------------------------------
\* shrinkChunks(state, maxShrinks, replay) on its own, for any replay function
\* ------------------------------------------------------------------------
MaxSteps == 5

\* the call shrinkChunks(state, maxShrinks, replay) that shrinkSequence makes
\* first: state holds the steps of the failing iteration
ChunksInit ==
  /\ heap = <<>>
  /\ RngIdle
  /\ pc = "shrinkChunks"
  /\ log = <<>>
  /\ result = None
  /\ thrown = None
  /\ version = "part_005"
  /\ arbIn = None
  /\ predIn = None
  /\ config = None
  /\ trial = None
  /\ fix = None
  /\ sel = None
  /\ first = None
  /\ specIn = AnyReplay
  /\ \E n \in 1..MaxSteps, maxShrinks \in {1, MaxShrinks, DefaultMaxShrinks} :
       /\ run = [maxShrinks |-> maxShrinks,
                 originalSteps |-> [i \in 1..n |-> [commandIndex |-> i - 1,
                                                    param |-> Undefined]]]
       /\ state = [steps |-> run.originalSteps, failedStep |-> n - 1, shrinks |-> 0,
                   error |-> Undefined]
       /\ loops = [globalImproved |-> FALSE,
                   chunks |-> [anyImproved |-> FALSE, chunkSize |-> n \div 2,
                               removedInPass |-> FALSE, i |-> 0],
                   params |-> None]

ChunksNext ==
  \/ ModelShrinkChunks
  \/ ModelChunkCandidate
  \/ ModelChunkPassEnd

\* the loops of shrinkChunks run on: no turn waits for anything
SpecChunks == ChunksInit /\ [][ChunksNext]_vars /\ WF_vars(ChunksNext)

\* ------------------------------------------------------------------------
\* shrinkSequence(commands, steps, result, maxShrinks, replay) on its own,
\* for every sequence an iteration can hand to it
\* ------------------------------------------------------------------------
MaxSequence == 4

\* the sequences of at most MaxSequence steps that executeIteration can
\* return as failed for a spec: every precondition held, no step before the
\* last one failed, the last one failed
FailingSequences(spec) ==
  LET Params(cmd) == IF cmd.arb = None THEN {Undefined}
                                       ELSE { Num(n) : n \in cmd.arb.min..cmd.arb.max }
      StepsOf(k) == { [commandIndex |-> k - 1, param |-> p] : p \in Params(spec.commands[k]) }
      Steps == UNION { StepsOf(k) : k \in 1..Len(spec.commands) }
      FailsAtEnd(r, n) == r.failed /\ r.failedStep = n - 1
  IN  { s \in UNION { [1..n -> Steps] : n \in 1..MaxSequence } :
          FailsAtEnd(ReplaySteps(spec, 0, Started(spec, <<>>, s)).result, Len(s)) }

\* runModel at its call of shrinkSequence, in its first iteration
ShrinkInit ==
  /\ heap = <<>>
  /\ RngIdle
  /\ pc = "shrinkSequence"
  /\ log = <<>>
  /\ result = None
  /\ thrown = None
  /\ version = "part_005"
  /\ arbIn = None
  /\ predIn = None
  /\ config = None
  /\ trial = None
  /\ fix = None
  /\ sel = None
  /\ first = None
  /\ specIn \in { m \in ModelSpecs : m.teardown = "none" /\ m.commands # <<>> }
                \cup { ModelSpec("multiples", "none",
                                 << Command("add", IntArb(min, 4), "none", "add",
                                            "notMultiple", 3) >>) : min \in 0..1 }
  /\ \E maxShrinks \in {1, MaxShrinks, DefaultMaxShrinks} :
       run = [seed |-> Wide(0, 1), runs |-> 1, maxCommands |-> MaxSequence,
              maxShrinks |-> maxShrinks, randomSource |-> 0, iteration |-> 1]
  /\ \E steps \in FailingSequences(specIn) :
       state = [steps |-> steps, failedStep |-> Len(steps) - 1, shrinks |-> 0,
                error |-> ReplaySteps(specIn, 0, Started(specIn, <<>>, steps)).result.error]
  /\ loops = [globalImproved |-> TRUE, chunks |-> None, params |-> None]

ShrinkNext ==
  \/ ModelShrinkSequence
  \/ ModelShrinkChunks
  \/ ModelChunkCandidate
  \/ ModelChunkPassEnd
  \/ ModelShrinkParams
  \/ ModelParamStep
  \/ ModelParamCandidate
  \/ ModelParamStepEnd

SpecShrink == ShrinkInit /\ [][ShrinkNext]_vars

\* ------------------------------------------------------------------------
\* The arbitraries on their own: generate from a seeded source, then shrink
\* ------------------------------------------------------------------------
MaxSize == 3
MaxAttempts == 3
MaxYield == 4

\* (current + target) / 2 in shrinkInt for two integers just below 2^53,
\* each held as its negative distance from 2^53.  The sum 2^54 + s lies in
\* [2^53, 2^54), where a Number is an even integer: an odd sum is rounded to
\* the neighbour with the even significand, the multiple of 4.  Half of it is
\* an integer, which Math.floor and Math.ceil return as it is.
HalfwayBelow2p53(current, target) ==
  LET Rounded(s) == IF s % 2 = 0 THEN s
                    ELSE IF (s + 1) % 4 = 0 THEN s + 1 ELSE s - 1
  IN  Rounded(current + target) \div 2

GenInit ==
  /\ RngIdle
  /\ version = "part_005"
  /\ predIn = None
  /\ config = None
  /\ run = None
  /\ trial = None
  /\ fix = None
  /\ sel = None
  /\ specIn = None
  /\ state = None
  /\ loops = None
  /\ first = None
  /\ log = <<>>
  /\ thrown = None
  /\ arbIn \in
       { IntArb(-3, 3), IntArb(1, 4), IntArb(-4, -1),
         CollectionArb("uniqueArray", None, IntArb(1, MaxSize), 2, MaxSize),
         CollectionArb("uniqueArray", None, IntArb(1, MaxSize - 1), MaxSize, MaxSize),
         CollectionArb("uniqueArray", None, BoolArb, 0, MaxSize),
         CollectionArb("uniqueArray", None, BoolArb, 2, 2),
         CollectionArb("set", None, IntArb(0, MaxSize), 1, MaxSize),
         CollectionArb("set", None, BoolArb, 2, MaxSize),
         CollectionArb("record", None, IntArb(0, 2), 1, MaxSize - 1),
         CollectionArb("dictionary", StringArb(1), IntArb(0, 2), 1, MaxSize - 1),
         CollectionArb("dictionary", StringArb(0), BoolArb, 0, MaxSize - 1),
         CollectionArb("dictionary", StringArb(0), BoolArb, 2, MaxSize - 1) }
       \cup { [kind |-> "filter", item |-> item, predicate |-> predicate,
                maxAttempts |-> maxAttempts] :
                item \in { IntArb(1, 4), IntArb(0, 7) },
                predicate \in { [k |-> "lessThan", t |-> 3], [k |-> "equal", t |-> 1],
                                [k |-> "even", t |-> 0],
                                [k |-> "lessThan", t |-> -10] },   \* () => false
                maxAttempts \in 1..MaxAttempts }
       \* gen.int(2^53 + min, 2^53 + max)
       \cup { [kind |-> "int2p53", min |-> min, max |-> -1] : min \in -5..-1 }
  \* the caller generates a value from a source, or brings a value of gen.int
  /\ \/ /\ pc = "generate"
        /\ arbIn.kind # "int2p53"
        /\ heap \in { createSeededRandomSource(<<>>, seed).heap :
                        seed \in { Wide(0, 1), Wide(0, 42), Wide(0, 123), Wide(9, 9),
                                   Wide(12345, 6789), Wide(30000, 1),
                                   Wide(-1, 65535),            \* -1
                                   Wide(24172, 64743) } }      \* 1584200935
        /\ result = None
     \/ /\ pc = "generated"
        /\ heap = createSeededRandomSource(<<>>, Wide(0, 1)).heap
        /\ arbIn.kind = "int"
        /\ result \in { Num(n) : n \in arbIn.min..arbIn.max }
     \* a value 2^53 + n of the caller
     \/ /\ pc = "generated"
        /\ heap = createSeededRandomSource(<<>>, Wide(0, 1)).heap
        /\ arbIn.kind = "int2p53"
        /\ result \in { [t |-> "number", plus |-> "2^53", n |-> n] :
                          n \in arbIn.min..arbIn.max }

\* arbitrary.generate(randomSource) is called, the source being cell 1 of
\* the heap: up to the loop of buildUniqueValues, buildUniqueKeys or
\* generateFilteredValue, or to the end where there is none
GenGenerate ==
  /\ pc = "generate"
  /\ LET Whole(made) ==
           /\ heap' = made.heap
           /\ result' = made.value
           /\ loops' = None
           /\ pc' = "generated"
         Loop(hp, desiredCount) ==
           /\ heap' = hp
           /\ result' = None
           /\ loops' = [desiredCount |-> desiredCount, i |-> 0, result |-> <<>>]
           /\ pc' = "buildUnique"
         \* gen.record: randomKey(randomSource, index) is `key_<index>_<digits>`,
         \* the digits Math.floor(randomSource() * 1_000_000) kept as the draw
         RECURSIVE Keys(_, _, _)
         Keys(hp, index, keyCount) ==
           IF index >= keyCount THEN [heap |-> hp, items |-> <<>>]
           ELSE LET Cons(drawn, rest) ==
                      [heap |-> rest.heap,
                       items |-> <<[t |-> "key", index |-> index, draw |-> drawn.value]>>
                                   \o rest.items]
                    Rest(drawn) == Cons(drawn, Keys(drawn.heap, index + 1, keyCount))
                IN  Rest(CallSource(hp, "createSeededRandomSource", 1))
         Filled(keys, values) ==
           [heap |-> values.heap,
            value |-> fromEntries([k \in 1..Len(keys) |->
                                     [key |-> keys[k], value |-> values.items[k]]])]
         Valued(keys) ==
           Filled(keys.items, GenerateItems(arbIn.item, Len(keys.items), keys.heap, 1))
         Sized(sized, size) ==
           IF arbIn.kind = "record" THEN Whole(Valued(Keys(sized.heap, 0, size)))
                                    ELSE Loop(sized.heap, size)
     IN  CASE arbIn.kind = "int" -> Whole(Generate(arbIn, heap, 1))
           [] arbIn.kind = "filter" ->
                /\ loops' = [attempt |-> 0]
                /\ pc' = "filtering"
                /\ UNCHANGED <<heap, result>>
           [] arbIn.kind = "dictionary" -> Loop(heap, arbIn.max)
           [] OTHER ->
                LET Drawn(sized) == Sized(sized, randomInt(sized.value, arbIn.min, arbIn.max))
                IN  Drawn(CallSource(heap, "createSeededRandomSource", 1))
  /\ UNCHANGED <<first, rngOnly, log, thrown, propOnly, specIn, state>>

\* one turn of the for loop of buildUniqueValues (buildUniqueKeys is the
\* same loop over the key generator)
GenBuildUnique ==
  /\ pc = "buildUnique"
  /\ loops.i < loops.desiredCount * AttemptsPerValue
  /\ Len(loops.result) < loops.desiredCount
  /\ LET Pushed(made) ==
           /\ heap' = made.heap
           /\ log' = Append(log, [fn |-> "generate", value |-> made.value])
           /\ loops' = [loops EXCEPT !.i = @ + 1,
                                     !.result = IF includes(@, made.value)
                                                  THEN @ ELSE Append(@, made.value)]
     IN  Pushed(Generate(IF arbIn.kind = "dictionary" THEN arbIn.key ELSE arbIn.item, heap, 1))
  /\ UNCHANGED <<first, rngOnly, pc, result, thrown, propOnly, specIn, state>>

\* the loop is left: generate throws or builds the collection
GenBuilt ==
  /\ pc = "buildUnique"
  /\ ~(/\ loops.i < loops.desiredCount * AttemptsPerValue
       /\ Len(loops.result) < loops.desiredCount)
  /\ IF Len(loops.result) < arbIn.min
       THEN /\ thrown' = RangeError(arbIn.kind \o " could not satisfy the minimum")
            /\ pc' = "done"
            /\ UNCHANGED <<heap, result>>
       ELSE LET Whole(made) ==
                  /\ heap' = made.heap
                  /\ result' = made.value
                  /\ pc' = "generated"
                  /\ thrown' = thrown
                Shorter(a, b) == IF a < b THEN a ELSE b
                \* values.slice(0, targetLength)
                Slice(a) == SubSeq(a, 1, Shorter(loops.desiredCount, Len(a)))
                \* gen.dictionary: the key count is drawn, the values are generated
                Filled(keys, values) ==
                  [heap |-> values.heap,
                   value |-> fromEntries([k \in 1..Len(keys) |->
                                            [key |-> keys[k], value |-> values.items[k]]])]
                Selected(sized, count) ==
                  Filled(SubSeq(loops.result, 1, count),
                         GenerateItems(arbIn.item, count, sized.heap, 1))
                Counted(sized) ==
                  Selected(sized, randomInt(sized.value, arbIn.min,
                                            Shorter(arbIn.max, Len(loops.result))))
            IN  CASE arbIn.kind = "dictionary" ->
                       Whole(Counted(CallSource(heap, "createSeededRandomSource", 1)))
                  [] arbIn.kind = "set" ->
                       Whole([heap |-> heap, value |-> NewSet(Slice(loops.result))])
                  [] OTHER -> Whole([heap |-> heap, value |-> Arr(Slice(loops.result))])
  /\ UNCHANGED <<first, rngOnly, log, propOnly, modelOnly>>

\* one turn of the for loop of generateFilteredValue, or the throw after
\* it, for a predicate that returns
GenFilterAttempt ==
  /\ pc = "filtering"
  /\ IF loops.attempt < arbIn.maxAttempts
       THEN LET Tested(made, outcome) ==
                  /\ heap' = made.heap
                  /\ log' = Append(log, [fn |-> "generate", value |-> made.value])
                  /\ IF Truthy(outcome.value)
                       THEN /\ result' = made.value
                            /\ pc' = "generated"
                            /\ loops' = loops
                       ELSE /\ loops' = [loops EXCEPT !.attempt = @ + 1]
                            /\ UNCHANGED <<result, pc>>
                  /\ thrown' = thrown
                Candidate(made) == Tested(made, PredOutcome(arbIn.predicate, made.value))
            IN  Candidate(Generate(arbIn.item, heap, 1))
       ELSE /\ thrown' = RangeError("filter predicate rejected all generated values")
            /\ pc' = "done"
            /\ UNCHANGED <<heap, log, result, loops>>
  /\ UNCHANGED <<first, rngOnly, propOnly, specIn, state>>

\* Array.from(arbitrary.shrink(value)) of the value generated
GenShrink ==
  /\ pc = "generated"
  /\ arbIn.kind # "int2p53"
  /\ sel' = CASE arbIn.kind = "filter" -> shrinkFiltered(result, arbIn.item, arbIn.predicate)
              [] arbIn.kind = "uniqueArray" -> shrinkUniqueArray(result.a, arbIn.item)
              [] arbIn.kind = "set" -> shrinkSet(result.a, arbIn.item)
              [] arbIn.kind = "record" -> shrinkRecord(result.entries, arbIn.item)
              [] arbIn.kind = "dictionary" ->
                   shrinkDictionary(result.entries, arbIn.key, arbIn.item)
              [] OTHER -> Shrink(arbIn, result)
  /\ pc' = "shrunk"
  /\ UNCHANGED <<first, heap, rngOnly, log, result, thrown, version, arbIn, predIn, config,
                 run, trial, fix, modelOnly>>

\* arbitrary.shrink(value) of gen.int with bounds just below 2^53, up to
\* the while loop of shrinkInt: 0 is not in the range, the target is min
GenShrinkInt ==
  /\ pc = "generated"
  /\ arbIn.kind = "int2p53"
  /\ sel' = <<>>
  /\ IF result.n < arbIn.min \/ result.n > arbIn.max
       THEN /\ loops' = loops
            /\ pc' = "shrunk"
       ELSE /\ loops' = [current |-> result.n, target |-> arbIn.min]
            /\ pc' = "shrinkInt"
  /\ UNCHANGED <<first, heap, rngOnly, log, result, thrown, version, arbIn, predIn, config,
                 run, trial, fix, specIn, state>>

\* one turn of the while loop of shrinkInt, the caller taking every value
\* the generator yields (sel) until it is done
GenShrinkIntTurn ==
  /\ pc = "shrinkInt"
  /\ Len(sel) < MaxYield
  /\ LET Turn(next) ==
           IF next < arbIn.min \/ next > arbIn.max
             THEN /\ pc' = "shrunk"
                  /\ UNCHANGED <<sel, loops>>
             ELSE /\ sel' = Append(sel, [t |-> "number", plus |-> "2^53", n |-> next])
                  /\ loops' = [loops EXCEPT !.current = next]
                  /\ pc' = "shrinkInt"
     IN  IF loops.current = loops.target
           THEN /\ pc' = "shrunk"
                /\ UNCHANGED <<sel, loops>>
           ELSE Turn(HalfwayBelow2p53(loops.current, loops.target))
  /\ UNCHANGED <<first, heap, rngOnly, log, result, thrown, version, arbIn, predIn, config,
                 run, trial, fix, specIn, state>>

GenNext ==
  \/ GenGenerate
  \/ GenBuildUnique
  \/ GenBuilt
  \/ GenFilterAttempt
  \/ GenShrink
  \/ GenShrinkInt
  \/ GenShrinkIntTurn

SpecGen == GenInit /\ [][GenNext]_vars

\* ------------------------------------------------------------------------
\* Properties of the random source
\* ------------------------------------------------------------------------
RECURSIVE StateAfter(_, _, _)
\* the state of a source made by `i` from `seed` after n calls
StateAfter(i, seed, n) ==
  IF n = 0 THEN InitialState(i, seed) ELSE Xorshift32(StateAfter(i, seed, n - 1))

\* C1: the first value drawn from a forked child differs from the next
\* value drawn from its parent.
C1_ChildDiffersFromParent ==
  (srcChild # 0 /\ Len(drawsChild) >= 1 /\ Len(drawsA) > forkPos)
    => drawsChild[1] # drawsA[forkPos + 1]

\* C3: two sources created independently from the same seed return the
\* same values draw by draw, however their draws interleave.
C3_SameSeedSameDraws ==
  \A i \in 1..Len(drawsA) :
    (i <= Len(drawsB) /\ (srcChild = 0 \/ i <= forkPos)) => drawsA[i] = drawsB[i]

C3_Witness ==
  /\ srcChild = 0
  /\ Len(drawsA) >= 2
  /\ Len(drawsB) >= 2
  /\ drawsA[2] = drawsB[2]

\* C4: a source created from a seed whose low 32 bits are 0 never has
\* internal state 0, whatever number of draws was made.
C4_ZeroSeedStateNonzero ==
  ToInt32(seedIn) = 0 => (heap[srcA] # 0 /\ heap[srcB] # 0)

\* C5: every draw v satisfies 0 <= v < 1, so randomInt(min, max) stays
\* within min..max.
C5_DrawInUnitInterval ==
  \A v \in ({drawsA[i] : i \in 1..Len(drawsA)} \cup {drawsB[i] : i \in 1..Len(drawsB)}
              \cup {drawsChild[i] : i \in 1..Len(drawsChild)}) :
    /\ v.num.hi >= 0      \* v >= 0 and v < 1
    /\ v.num.hi < v.den.hi \/ (v.num.hi = v.den.hi /\ v.num.lo < v.den.lo)
    /\ \A r \in { <<0, 1>>, <<1, 100>>, <<-5, 5>> } : randomInt(v, r[1], r[2]) \in r[1]..r[2]

\* C6: forkRandomSource advances the parent by exactly one call, and draws
\* from the child leave the parent where it was: after the fork the parent
\* is always 1 + (its own draws) calls away from its seed, and its draws
\* after the fork are the values of those calls.
C6_ForkAdvancesParentOnce ==
  srcChild # 0 =>
    /\ heap[srcA] = StateAfter(impl, seedIn, Len(drawsA) + 1)
    /\ \A i \in (forkPos + 1)..Len(drawsA) :
         drawsA[i] = DrawValue(impl, StateAfter(impl, seedIn, i + 1))

C6_Witness ==
  /\ srcChild # 0
  /\ Len(drawsChild) >= 2
  /\ Len(drawsA) > forkPos
  /\ forkPos >= 1

\* ------------------------------------------------------------------------
\* Properties of runProperty and fuzzAssert
\* ------------------------------------------------------------------------
GenerateLog == SelectSeq(log, LAMBDA e : e.fn = "generate")

TrialLog == SelectSeq(log, LAMBDA e : e.fn = "predicate" /\ e.phase = "trial")

PredicateLog == SelectSeq(log, LAMBDA e : e.fn = "predicate")

\* the predicate returns false or throws on v
PredicateFails(v) ==
  LET o == PredOutcome(predIn, v)
  IN  o.kind = "throw" \/ o.value = Bool(FALSE)

RECURSIVE RefTrialSource(_, _, _, _)
RefTrialSource(ver, h, randomSource, k) ==
  LET s == TrialSource(ver, h, randomSource)
  IN  IF k <= 1 THEN s.heap[s.src] ELSE RefTrialSource(ver, s.heap, randomSource, k - 1)

\* C2: the stream handed to trial k starts in a state that depends on the
\* seed and on k only: it is the state it has for an arbitrary that draws
\* nothing, whatever the arbitrary of this run drew in trials 1..k-1.
C2_TrialStreamIndependentOfDraws ==
  \A i \in 1..Len(GenerateLog) :
    LET From(made, k) == RefTrialSource(version, made.heap, made.src, k)
    IN  GenerateLog[i].start =
          From(createSeededRandomSource(<<>>, run.seed), GenerateLog[i].iteration)

\* C7: runProperty returns ok exactly when the predicate passed on all
\* `runs` trial values; otherwise iterations is the first failing trial,
\* all earlier trials passed and no later trial was generated or evaluated.
C7_FirstFailingTrial ==
  result # None =>
    /\ Len(GenerateLog) = Len(TrialLog)
    /\ \A i \in 1..Len(TrialLog) :
         /\ TrialLog[i].iteration = i
         /\ GenerateLog[i].iteration = i
         /\ TrialLog[i].value = GenerateLog[i].value
    /\ result.ok <=> (Len(TrialLog) = run.runs
                       /\ \A i \in 1..Len(TrialLog) : ~PredicateFails(TrialLog[i].value))
    /\ ~result.ok =>
         /\ Len(TrialLog) = result.failure.iterations
         /\ PredicateFails(TrialLog[Len(TrialLog)].value)
         /\ \A i \in 1..(Len(TrialLog) - 1) : ~PredicateFails(TrialLog[i].value)

C7_Witness ==
  /\ result # None
  /\ ~result.ok
  /\ result.failure.iterations >= 2
  /\ result.failure.iterations < run.runs

\* C8: an evaluation of the predicate is a failure exactly when it returned
\* false or threw; a thrown value is the recorded error, and it is the
\* failure's error when shrinking recorded none.
C8_FailureIsFalseOrThrow ==
  /\ \A i \in 1..Len(PredicateLog) :
       LET e == PredicateLog[i]
           o == PredOutcome(predIn, e.value)
       IN  /\ e.failed <=> (o.kind = "throw" \/ o.value = Bool(FALSE))
           /\ e.error = IF o.kind = "throw" THEN o.value ELSE Undefined
  /\ (result # None /\ ~result.ok /\ fix.lastError = Undefined) =>
       result.failure.error = trial.result.error

C8_Witness ==
  /\ \E i \in 1..Len(log) :
       /\ log[i].fn = "predicate"
       /\ PredOutcome(predIn, log[i].value).kind = "throw"
  /\ \E i \in 1..Len(log) :
       /\ log[i].fn = "predicate"
       /\ PredOutcome(predIn, log[i].value) = Returns(Bool(FALSE))
  /\ \E i \in 1..Len(log) :
       /\ log[i].fn = "predicate"
       /\ PredOutcome(predIn, log[i].value) \in {Returns(Num(0)), Returns(Null)}
       /\ ~log[i].failed

\* ------------------------------------------------------------------------
\* Claims about both runners
\* ------------------------------------------------------------------------
\* the cause an assert* error carries for an evaluation with this outcome
CauseOf(outcome) == IF outcome.kind = "throw" THEN outcome.value ELSE Absent

\* C9: runProperty and runModel throw nothing but a RangeError of the
\* validation, whatever predicate, run and check do; fuzzAssert and
\* assertModel throw exactly when the run returned ok: false; and the cause
\* of the thrown Error is what the predicate threw on the failing trial or on
\* the reported counterexample (what run or check threw in the reported
\* sequence), and is absent when that failure was a returned false.
C9_AssertThrowsOriginalCause ==
  /\ (thrown # None /\ result = None) => thrown.t = "RangeError"
  /\ (pc = "done" /\ result # None) => (thrown # None <=> ~result.ok)
  /\ (pc = "done" /\ result # None /\ ~result.ok) =>
       /\ thrown.t = "Error"
       /\ IF specIn = None
            THEN thrown.cause \in
                   { CauseOf(PredOutcome(predIn, trial.value)),
                     CauseOf(PredOutcome(predIn, result.failure.counterexample)) }
            ELSE LET Cause(replayed) == IF replayed.result.error # Undefined
                                          THEN replayed.result.error ELSE Absent
                 IN  thrown.cause = Cause(replaySequence(specIn, state.steps))

\* config numbers that are not positive integers
InvalidNumber(c) == c.k \in {"frac", "nan"} \/ (c.k = "int" /\ c.v <= 0)

\* C10: with runs, maxShrinks or maxCommands not a positive integer, or an
\* empty command list, the call ends with a RangeError and no generator,
\* predicate, state(), setup(), precondition, run, check or teardown is
\* ever called.
C10_InvalidConfigRangeError ==
  (/\ config # None
   /\ \/ InvalidNumber(config.runs)
      \/ InvalidNumber(config.maxShrinks)
      \/ specIn # None /\ (InvalidNumber(config.maxCommands) \/ specIn.commands = <<>>)) =>
    /\ log = <<>>
    /\ result = None
    /\ pc \in {"call", "mcall", "done"}
    /\ pc = "done" => (thrown # None /\ thrown.t = "RangeError")

C10_Witness ==
  /\ pc = "done"
  /\ specIn # None
  /\ specIn.commands # <<>>
  /\ ~InvalidNumber(config.runs)
  /\ ~InvalidNumber(config.maxCommands)
  /\ config.maxShrinks = CInt(0)
  /\ thrown = RangeError("maxShrinks must be a positive integer")
  /\ log = <<>>

\* ------------------------------------------------------------------------
\* The shrink budget of runProperty
\* ------------------------------------------------------------------------
\* the evaluations of the predicate on shrink candidates so far
ShrinkLog == SelectSeq(log, LAMBDA e : e.fn = "predicate" /\ e.phase = "shrink")

\* C11: the shrink loop of runProperty stops within maxShrinks rounds, the
\* predicate is evaluated on at most maxShrinks shrink candidates in total,
\* and the reported failure.shrinks is at most maxShrinks, for every
\* arbitrary, also one whose shrinker yields the current value again or
\* larger values.
C11_ShrinkBudget ==
  (specIn = None /\ run # None) =>
    /\ Len(ShrinkLog) <= run.maxShrinks
    /\ fix # None => fix.round <= run.maxShrinks /\ fix.totalShrinks <= run.maxShrinks
    /\ (result # None /\ ~result.ok) => result.failure.shrinks <= run.maxShrinks

\* runProperty returned a failure
PropertyFailed == specIn = None /\ result # None /\ ~result.ok

\* C12: a failure reported with shrinks < maxShrinks has a counterexample
\* that is a shrink fixed point: the predicate fails on none of its shrink
\* candidates.
C12_FixedPointWithinBudget ==
  (PropertyFailed /\ result.failure.shrinks < run.maxShrinks) =>
    \A i \in 1..Len(Shrink(arbIn, result.failure.counterexample)) :
      ~tryFailure(predIn, Shrink(arbIn, result.failure.counterexample)[i]).failed

\* ------------------------------------------------------------------------
\* What shrinking reaches
\* ------------------------------------------------------------------------
\* the predicate fails on every value: () => false
AlwaysFails == predIn = [k |-> "lessThan", t |-> -10]

\* the shrink budget was not used up
BudgetLeft == result.failure.shrinks < run.maxShrinks

\* C13: with gen.int(min, max), a predicate that fails on every value and a
\* budget that is not used up, runProperty reports the integer of the range
\* nearest 0 as counterexample, whatever value was generated.
C13_IntShrinksToNearestZero ==
  LET NearestZero(min, max) ==
        IF min <= 0 /\ 0 <= max THEN 0 ELSE IF min > 0 THEN min ELSE max
  IN  (PropertyFailed /\ arbIn.kind = "int" /\ AlwaysFails /\ BudgetLeft) =>
        result.failure.counterexample = Num(NearestZero(arbIn.min, arbIn.max))

\* C14: the reported counterexample is the smallest failing case found: its
\* score is at most the score of the generated failing value and of every
\* shrink candidate on which the predicate was evaluated and failed.
C14_CounterexampleIsSmallestFound ==
  PropertyFailed =>
    /\ scoreValue(result.failure.counterexample) <= scoreValue(trial.value)
    /\ \A j \in 1..Len(ShrinkLog) :
         ShrinkLog[j].failed =>
           scoreValue(result.failure.counterexample) <= scoreValue(ShrinkLog[j].value)

\* the arbitrary generates values with a length: gen.array, gen.string
HasLength == arbIn # None /\ arbIn.kind \in {"array", "string"}

\* C15: with gen.array or gen.string, a predicate that fails on every value
\* and a budget that is not used up, runProperty reports a counterexample of
\* length 0; and the length of the current value of the shrink loop never
\* grows from one accepted round to the next.
C15_LengthShrinksToZero ==
  /\ [](PropertyFailed /\ HasLength /\ AlwaysFails /\ BudgetLeft
          => Measure(result.failure.counterexample) = 0)
  /\ [][(HasLength /\ fix # None /\ fix' # None)
          => Measure(fix'.current) <= Measure(fix.current)]_vars

\* ------------------------------------------------------------------------
\* Calling again
\* ------------------------------------------------------------------------
\* the second call of the property runner, made in the given mode, has ended
PropSecondDone(mode) ==
  specIn = None /\ first # None /\ first.mode = mode /\ pc = "done"

\* C16: two calls of runProperty / fuzzReplay with the same arbitrary,
\* predicate, seed, runs and maxShrinks end the same way: the same result
\* (ok, iterations, shrinks, counterexample) and the same thrown Error.
C16_SameArgumentsSameResult ==
  PropSecondDone("same") => (result = first.result /\ thrown = first.thrown)

C16_Witness ==
  /\ PropSecondDone("same")
  /\ PropertyFailed
  /\ result.failure.iterations > 1
  /\ result.failure.shrinks > 1
  /\ result.failure.counterexample # trial.value
  /\ result = first.result

\* C17: the seed and runs of a reported failure reproduce it: calling again
\* with { seed: failure.seed, runs: failure.runs } alone reports a failure
\* with the same iterations and the same counterexample, whatever seed and
\* maxShrinks the first call was given.
C17_SeedAndRunsReproduce ==
  PropSecondDone("replay") =>
    /\ result # None /\ ~result.ok
    /\ result.failure.iterations = first.result.failure.iterations
    /\ result.failure.counterexample = first.result.failure.counterexample

\* C18: runPropertyAsync returns what runProperty returns for the same
\* arbitrary, config and predicate: the same ok flag, iterations,
\* counterexample, shrinks and error.
C18_AsyncEqualsSync ==
  PropSecondDone("async") => result = first.result

\* ------------------------------------------------------------------------
\* The systems of runModel
\* ------------------------------------------------------------------------
\* the calls of setup and teardown so far
LifeLog == SelectSeq(log, LAMBDA e : e.fn \in {"setup", "teardown"})

\* C19: with a teardown in the spec, every system that setup() returned, in
\* an iteration or in a shrink replay, passing or failing or with a throwing
\* run/check, is passed to teardown exactly once, before the next setup()
\* and before runModel returns: setup and teardown alternate, a teardown ends
\* every execution, and no system is live between executions.
C19_TeardownOncePerSetup ==
  (specIn # None /\ specIn.teardown # "none") =>
    /\ Len(LifeLog) % 2 = 0
    /\ \A i \in 1..Len(LifeLog) :
         /\ LifeLog[i].fn = IF i % 2 = 1 THEN "setup" ELSE "teardown"
         /\ i % 2 = 0 => /\ LifeLog[i].phase = LifeLog[i - 1].phase
                         /\ LifeLog[i].iteration = LifeLog[i - 1].iteration
    /\ \A i \in 1..Len(log) :
         log[i].fn = "teardown" => (i = Len(log) \/ log[i + 1].fn = "state")
    /\ log # <<>> => log[Len(log)].fn = "teardown"

C19_Witness ==
  /\ pc = "done"
  /\ specIn # None
  /\ specIn.teardown = "ok"
  /\ result # None
  /\ ~result.ok
  /\ Len(LifeLog) >= 6
  \* a replay in which run threw, and a replay that passed
  /\ \E i \in 1..Len(log) :
       log[i].phase # "iteration" /\ log[i].fn = "run" /\ log[i].threw
  /\ \E i \in 2..Len(log) :
       /\ log[i].phase # "iteration" /\ log[i].fn = "teardown"
       /\ log[i - 1].fn = "check" /\ log[i - 1].outcome = Returns(Undefined)

\* the second call of the model runner, made in the given mode, has ended
ModelSecondDone(mode) ==
  specIn # None /\ first # None /\ first.mode = mode /\ pc = "done"

\* C20: an error thrown by teardown never leaves runModel and never changes
\* the outcome: with a throwing teardown runModel returns, and assertModel
\* throws, what they do for the same spec and config with a teardown that
\* returns (ok, sequence, failedStep, shrinks, error).
C20_ThrowingTeardownChangesNothing ==
  /\ (specIn # None /\ thrown # None) => thrown # TeardownError
  /\ ModelSecondDone("teardown") => (result = first.result /\ thrown = first.thrown)

C20_Witness ==
  /\ ModelSecondDone("teardown")
  /\ result # None
  /\ ~result.ok
  /\ result.failure.shrinks > 1
  /\ result.failure.error # Undefined
  /\ result = first.result

\* ------------------------------------------------------------------------
\* The steps of a command sequence
\* ------------------------------------------------------------------------
\* C21: run is called only with a model on which the command's precondition
\* holds, and check only after the run of the same step, in generated
\* iterations and in replays; when the filter finds no eligible command the
\* iteration makes no further call but teardown and passes; a replay that
\* meets a false precondition makes no further call but teardown, and its
\* candidate is not taken over.
C21_PreconditionGuardsSteps ==
  /\ [](LET Same(i, j) ==
              log[i].phase = log[j].phase /\ log[i].iteration = log[j].iteration
            OnlyTeardownAfter(i) ==
              \A j \in (i + 1)..Len(log) : Same(i, j) => log[j].fn = "teardown"
            NoneEligible(i, n) ==
              /\ n > 0
              /\ i + n - 1 <= Len(log)
              /\ \A k \in 0..(n - 1) :
                   /\ log[i + k].fn = "precondition"
                   /\ log[i + k].phase = "iteration"
                   /\ log[i + k].command = k
                   /\ ~log[i + k].holds
                   /\ Same(i, i + k)
        IN  specIn # None =>
              \A i \in 1..Len(log) :
                /\ log[i].fn = "run" =>
                     PreHolds(specIn.commands[log[i].command + 1], log[i].model)
                /\ log[i].fn = "check" =>
                     /\ i > 1
                     /\ log[i - 1].fn = "run"
                     /\ ~log[i - 1].threw
                     /\ log[i - 1].command = log[i].command
                     /\ Same(i - 1, i)
                /\ (log[i].fn = "precondition" /\ log[i].phase # "iteration"
                      /\ ~log[i].holds) => OnlyTeardownAfter(i)
                /\ NoneEligible(i, Len(specIn.commands)) =>
                     /\ OnlyTeardownAfter(i + Len(specIn.commands) - 1)
                     /\ state # None => run.iteration # log[i].iteration)
  /\ [][(/\ specIn # None
         /\ Len(log') > Len(log)
         /\ \E i \in (Len(log) + 1)..Len(log') :
              /\ log'[i].fn = "precondition"
              /\ log'[i].phase # "iteration"
              /\ ~log'[i].holds)
        => state' = [state EXCEPT !.shrinks = @ + 1]]_vars

\* a run of two iterations: the first stopped early because no command was
\* eligible, the second failed, and a replay of a shrink candidate met a
\* false precondition
C21_Witness ==
  /\ specIn # None
  /\ result # None
  /\ ~result.ok
  /\ result.failure.iterations = 2
  /\ \E i \in 1..Len(log) :
       /\ log[i].phase = "iteration" /\ log[i].iteration = 1
       /\ log[i].fn = "precondition" /\ log[i].command = 0 /\ ~log[i].holds
       /\ i > 1 /\ log[i - 1].fn \in {"run", "check"}
  /\ \E i \in 1..Len(log) :
       log[i].fn = "precondition" /\ log[i].phase # "iteration" /\ ~log[i].holds
  /\ \E i \in 1..Len(log) :
       log[i].fn = "run" /\ specIn.commands[log[i].command + 1].pre # "none"

\* C22: the first step whose run throws, or whose check returns false or
\* throws, ends the iteration or replay: after it nothing but teardown is
\* called (no check after a throwing run, no later step), and the outcome is
\* a failure whose failedStep is the index of that step and whose error is
\* the thrown value, undefined for a returned false.
C22_FirstFailureEndsSequence ==
  /\ [](specIn # None =>
          \A i \in 1..Len(log) :
            (\/ log[i].fn = "run" /\ log[i].threw
             \/ log[i].fn = "check" /\ log[i].outcome.kind = "throw"
             \/ log[i].fn = "check" /\ log[i].outcome = Returns(Bool(FALSE)))
            => \A j \in (i + 1)..Len(log) :
                 (log[j].phase = log[i].phase /\ log[j].iteration = log[i].iteration)
                 => log[j].fn = "teardown")
  /\ [][(specIn # None /\ Len(log') > Len(log)) =>
          LET StepOf(i) ==
                Cardinality({ k \in (Len(log) + 1)..i : log'[k].fn = "run" }) - 1
              Failure(i, error) ==
                /\ state' # None
                /\ state'.failedStep = StepOf(i)
                /\ state'.error = error
                /\ StepOf(i) < Len(state'.steps)
                /\ state'.steps[StepOf(i) + 1] =
                     [commandIndex |-> log'[i].command, param |-> log'[i].param]
              Failed(i) ==
                \/ log'[i].fn = "run" /\ log'[i].threw
                \/ log'[i].fn = "check" /\ log'[i].outcome.kind = "throw"
                \/ log'[i].fn = "check" /\ log'[i].outcome = Returns(Bool(FALSE))
          IN  /\ \A i \in (Len(log) + 1)..Len(log') :
                   /\ (log'[i].fn = "run" /\ log'[i].threw) => Failure(i, log'[i].error)
                   /\ (log'[i].fn = "check" /\ log'[i].outcome.kind = "throw")
                        => Failure(i, log'[i].outcome.value)
                   /\ (log'[i].fn = "check" /\ log'[i].outcome = Returns(Bool(FALSE)))
                        => Failure(i, Undefined)
              /\ (\A i \in (Len(log) + 1)..Len(log') : ~Failed(i)) =>
                   (state' = state \/ state' = [state EXCEPT !.shrinks = @ + 1])]_vars

\* runModel reported a failure at a step after the first, with an error, and
\* while shrinking a replay ended by a throwing run and another by a check
C22_Witness ==
  /\ specIn # None
  /\ result # None
  /\ ~result.ok
  /\ result.failure.failedStep >= 1
  /\ result.failure.error # Undefined
  /\ \E i \in 1..Len(log) :
       log[i].phase # "iteration" /\ log[i].fn = "run" /\ log[i].threw /\ log[i].command = 0
  /\ \E i \in 1..Len(log) :
       log[i].phase # "iteration" /\ log[i].fn = "run" /\ ~log[i].threw

\* ------------------------------------------------------------------------
\* Shrinking a command sequence
\* ------------------------------------------------------------------------
\* C23: while a sequence is shrunk the shrink counter is the number of
\* replays made so far (one setup() each) and never exceeds maxShrinks, so no
\* replay starts once the budget is spent; the reported failure.shrinks is
\* the number of setup() calls made after the failing iteration.
C23_ShrinksCountsReplays ==
  (specIn # None /\ state # None) =>
    LET Replays == { i \in 1..Len(log) : log[i].fn = "setup" /\ log[i].phase # "iteration" }
    IN  /\ state.shrinks = Cardinality(Replays)
        /\ state.shrinks <= run.maxShrinks
        /\ (result # None /\ ~result.ok) => result.failure.shrinks = Cardinality(Replays)

\* the budget ran out in the middle of chunk removal, after a replay that
\* failed (the reported sequence is shorter than the generated one)
C23_Witness ==
  /\ specIn # None
  /\ result # None
  /\ ~result.ok
  /\ run.maxShrinks >= 2
  /\ result.failure.shrinks = run.maxShrinks
  /\ loops.chunks.chunkSize >= 1
  /\ Len(result.failure.sequence) < Cardinality({ i \in 1..Len(log) :
                                       log[i].fn = "run" /\ log[i].phase = "iteration"
                                         /\ log[i].iteration = result.failure.iterations })

\* C24: shrinkChunks returns for every replay function and every budget,
\* the default of 1000 included; the steps never grow and get strictly
\* shorter with every replay that fails; a pass that removed nothing ends
\* with a smaller chunk size; when no replay fails shrinkChunks returns with
\* chunk size 0, the steps unchanged and nothing improved.
C24_ChunkRemovalTerminates ==
  /\ (pc \in {"shrinkChunks", "chunkPass"}) ~> (pc = "shrinkParams")
  /\ [](pc = "shrinkParams" =>
          /\ loops.chunks.chunkSize = 0 \/ state.shrinks >= run.maxShrinks
          /\ (\A i \in 1..Len(log) : ~log[i].failed) =>
               /\ state.steps = run.originalSteps
               /\ ~loops.globalImproved
               /\ state.shrinks < run.maxShrinks => loops.chunks.chunkSize = 0)
  /\ [][/\ Len(state'.steps) <= Len(state.steps)
        /\ Len(state'.steps) >= 1
        /\ (Len(log') > Len(log) /\ log'[Len(log')].failed)
             => Len(state'.steps) < Len(state.steps)
        /\ state'.steps # state.steps => loops'.chunks.anyImproved
        /\ (pc = "chunkPass" /\ pc' = "shrinkChunks") =>
             \/ loops.chunks.removedInPass
             \/ loops'.chunks.chunkSize < loops.chunks.chunkSize]_vars

\* shrinkChunks returned with the default budget for a sequence of 4 or more
\* steps after replays of which some failed and some did not
C24_Witness ==
  /\ specIn = AnyReplay
  /\ pc = "shrinkParams"
  /\ run.maxShrinks = DefaultMaxShrinks
  /\ Len(run.originalSteps) >= 4
  /\ Len(state.steps) = 2
  /\ \E i \in 1..Len(log) : ~log[i].failed
  /\ loops.chunks.chunkSize = 0

\* C25: a failure reported with shrinks < maxShrinks has a locally minimal
\* sequence: the replay of the sequence without any one of its steps does
\* not fail, and neither does the replay of the sequence with the parameter
\* of any one step replaced by any one of its shrink candidates.
C25_SequenceLocallyMinimal ==
  (specIn # None /\ result # None /\ ~result.ok
     /\ result.failure.shrinks < run.maxShrinks) =>
    LET Without(steps, i) == SubSeq(steps, 1, i - 1) \o SubSeq(steps, i + 1, Len(steps))
        With(steps, i, param) ==
          [idx \in 1..Len(steps) |->
             IF idx = i THEN [steps[idx] EXCEPT !.param = param] ELSE steps[idx]]
        Candidates(step) ==
          IF specIn.commands[step.commandIndex + 1].arb = None THEN <<>>
          ELSE Shrink(specIn.commands[step.commandIndex + 1].arb, step.param)
    IN  \A i \in 1..Len(state.steps) :
          /\ ~replaySequence(specIn, Without(state.steps, i)).result.failed
          /\ \A c \in 1..Len(Candidates(state.steps[i])) :
               ~replaySequence(specIn, With(state.steps, i,
                                            Candidates(state.steps[i])[c])).result.failed

\* a failure reported within the budget whose sequence of two steps is
\* shorter than the generated one and has a parameter that was shrunk
C25_Witness ==
  /\ specIn # None
  /\ result # None
  /\ ~result.ok
  /\ result.failure.shrinks < run.maxShrinks
  /\ Len(state.steps) = 2
  /\ \E i \in 1..Len(log) : log[i].phase = "chunks" /\ log[i].fn = "check"
                              /\ log[i].outcome = Returns(Bool(FALSE))
  /\ \E i \in 1..Len(log) : log[i].phase = "params" /\ log[i].fn = "check"
                              /\ log[i].outcome = Returns(Bool(FALSE))

\* C26: two calls of runModel with the same spec and the same seed, runs,
\* maxCommands and maxShrinks end alike: both return ok, or both return a
\* failure with the same iterations, sequence, parameters, failedStep, shrinks
\* and error, or both throw the same RangeError; and they make the same calls
\* of the spec's functions.
C26_SameConfigSameModelResult ==
  ModelSecondDone("same") =>
    /\ result = first.result
    /\ thrown = first.thrown
    /\ first.result # None => log = first.log

\* both calls reported the same failure after shrinking with replays that
\* failed and replays that did not
C26_Witness ==
  /\ ModelSecondDone("same")
  /\ result # None
  /\ ~result.ok
  /\ result = first.result
  /\ result.failure.iterations = 2
  /\ result.failure.shrinks >= 3
  /\ Len(result.failure.sequence) >= 2

\* C27: at every point of shrinking, and in every failure that runModel
\* returns, the sequence has between 1 and maxCommands steps and failedStep
\* is an index into it.
C27_FailureSequenceShape ==
  /\ (specIn # None /\ state # None) =>
       /\ Len(state.steps) >= 1
       /\ Len(state.steps) <= run.maxCommands
       /\ state.failedStep >= 0
       /\ state.failedStep < Len(state.steps)
  /\ (specIn # None /\ result # None /\ ~result.ok) =>
       /\ Len(result.failure.sequence) >= 1
       /\ Len(result.failure.sequence) <= run.maxCommands
       /\ result.failure.failedStep >= 0
       /\ result.failure.failedStep < Len(result.failure.sequence)

\* chunk removal shortened a failing iteration of two or more steps to one
\* step and then skipped the empty candidate, without a replay
C27_Witness ==
  /\ specIn # None
  /\ state # None
  /\ pc = "chunkPass"
  /\ Len(state.steps) = 1
  /\ state.failedStep = 0
  /\ loops.chunks.chunkSize = 1
  /\ loops.chunks.i = 1
  /\ loops.chunks.removedInPass
  /\ state.shrinks = 1
  /\ \E it \in 1..MaxRuns :
       /\ \A k \in 1..Len(log) : log[k].phase = "iteration" => log[k].iteration <= it
       /\ Cardinality({ k \in 1..Len(log) : log[k].fn = "run" /\ log[k].phase = "iteration"
                          /\ log[k].iteration = it }) >= 2

\* C28: every shrink candidate of a value within the bounds of its arbitrary
\* is within them too: a number of gen.int lies in [min, max], a
\* uniqueArray, set, record or dictionary has at least the minimum size.
C28_ShrinkCandidatesInBounds ==
  (pc = "shrunk" /\ arbIn.kind # "filter") =>
    LET Size(v) == IF v.t = "object" THEN Len(v.entries) ELSE Len(v.a)
        InBounds(v) == IF arbIn.kind \in {"int", "int2p53"}
                         THEN v.t = "number" /\ v.n >= arbIn.min /\ v.n <= arbIn.max
                         ELSE Size(v) >= arbIn.min /\ Size(v) <= arbIn.max
    IN  InBounds(result) => \A k \in 1..Len(sel) : InBounds(sel[k])

\* C29: generate of gen.uniqueArray, gen.set and gen.dictionary throws a
\* RangeError or returns a collection without duplicate members (keys) of a
\* size within [min, max], and it calls the element (key) generator at most
\* 20 times the requested size.
C29_UniqueWithinBounds ==
  arbIn.kind \in {"uniqueArray", "set", "dictionary"} =>
    LET Members(v) == IF v.t = "object" THEN [k \in 1..Len(v.entries) |-> v.entries[k].key]
                                        ELSE v.a
        Distinct(m) == \A i, j \in 1..Len(m) : m[i] = m[j] => i = j
        Sized(m) == Len(m) >= arbIn.min /\ Len(m) <= arbIn.max
    IN  /\ pc \in {"generated", "shrunk"} =>
             /\ thrown = None
             /\ Distinct(Members(result))
             /\ Sized(Members(result))
        /\ pc = "done" => thrown.t = "RangeError" /\ result = None
        /\ pc \in {"generate", "buildUnique"} => thrown = None /\ result = None
        /\ loops # None =>
             /\ loops.desiredCount <= arbIn.max
             /\ Len(log) = loops.i
             /\ Len(log) <= AttemptsPerValue * loops.desiredCount

\* a set that needs two members was asked for more: the generator, called 20
\* times for each, repeated itself and the set came out at its minimum
C29_Witness ==
  /\ arbIn.kind = "set"
  /\ pc = "generated"
  /\ arbIn.min >= 2
  /\ Len(result.a) = arbIn.min
  /\ Len(result.a) < loops.desiredCount
  /\ Len(log) = AttemptsPerValue * loops.desiredCount

\* C30: generate of gen.filter calls the inner generator at most maxAttempts
\* times, returns the first generated value that satisfies the predicate
\* and throws when none of maxAttempts values does; every shrink candidate
\* satisfies the predicate.
C30_FilterRetriesAndFilters ==
  arbIn.kind = "filter" =>
    LET Satisfies(v) == Truthy(PredOutcome(arbIn.predicate, v).value)
        Rejected(n) == \A k \in 1..n : ~Satisfies(log[k].value)
    IN  /\ Len(log) <= arbIn.maxAttempts
        /\ pc = "filtering" => Rejected(Len(log)) /\ result = None /\ thrown = None
        /\ pc \in {"generated", "shrunk"} =>
             /\ Len(log) >= 1
             /\ result = log[Len(log)].value
             /\ Satisfies(result)
             /\ Rejected(Len(log) - 1)
             /\ thrown = None
        /\ pc = "done" =>
             /\ thrown.t = "RangeError"
             /\ result = None
             /\ Len(log) = arbIn.maxAttempts
             /\ Rejected(Len(log))
        /\ pc = "shrunk" => \A k \in 1..Len(sel) : Satisfies(sel[k])

\* a value found at the last allowed attempt, with shrink candidates kept and
\* others discarded
C30_Witness ==
  /\ arbIn.kind = "filter"
  /\ pc = "shrunk"
  /\ Len(log) = arbIn.maxAttempts
  /\ Len(log) >= 2
  /\ Len(sel) >= 1
  /\ Len(sel) < Len(Shrink(arbIn.item, result))

\* C31: when a shrink round of runProperty ends, the failing candidate of
\* the round with the smallest score, the earliest one on ties, becomes the
\* current value and the loop goes on, whatever the candidate's value.
C31_BestFailingCandidateWins ==
  [][(pc = "select" /\ pc' \in {"shrink", "returned"} /\ version \in {"part_005", "property.ts"}) =>
       LET Fails(k) == tryFailure(predIn, sel.candidates[k]).failed
           Score(k) == scoreValue(sel.candidates[k])
           Best(failing) ==
             CHOOSE k \in failing :
               \A j \in failing : Score(k) < Score(j) \/ (Score(k) = Score(j) /\ k <= j)
           Chosen(failing) ==
             failing # {} => /\ fix'.current = sel.candidates[Best(failing)]
                             /\ pc' = "shrink"
       IN  Chosen({ k \in 1..(sel.index - 1) : Fails(k) })]_vars

\* C32: failure.shrinks of runProperty is the number of shrink candidates
\* the predicate was evaluated on, passing and failing alike, those of the
\* last round included.
C32_ShrinksCountsEvaluations ==
  (PropertyFailed /\ version \in {"part_005", "property.ts"}) =>
    result.failure.shrinks = Len(ShrinkLog)

\* C33: in chunk removal, the candidate tried after a removal that
\* reproduced the failure is the one at the start of the shortened sequence
\* with chunk size floor(newLength / 2); the chunk size is halved only after
\* a full pass without a removal; the phase stops at chunk size 0.
C33_ScanRestartsAfterRemoval ==
  /\ [][(pc = "chunkPass" /\ pc' = "chunkPass" /\ Len(state'.steps) < Len(state.steps)) =>
          LET TriedNext == /\ loops'.chunks.i + loops'.chunks.chunkSize <= Len(state'.steps)
                           /\ loops'.chunks.chunkSize < Len(state'.steps)
                           /\ state'.shrinks < run.maxShrinks
          IN  TriedNext => /\ loops'.chunks.i = 0
                           /\ loops'.chunks.chunkSize = Len(state'.steps) \div 2]_vars
  /\ [][(pc \in {"shrinkChunks", "chunkPass"} /\ loops'.chunks.chunkSize # loops.chunks.chunkSize) =>
          /\ pc = "chunkPass"
          /\ pc' = "shrinkChunks"
          /\ IF loops.chunks.removedInPass
               THEN loops'.chunks.chunkSize = Len(state.steps) \div 2
               ELSE /\ loops'.chunks.chunkSize = loops.chunks.chunkSize \div 2
                    /\ \/ loops.chunks.i + loops.chunks.chunkSize > Len(state.steps)
                       \/ state.shrinks >= run.maxShrinks]_vars
  /\ [][(pc = "shrinkChunks" /\ loops.chunks.chunkSize = 0) => pc' = "shrinkParams"]_vars

\* C34: parameter shrinking visits the steps left to right and the shrink
\* candidates of a step's parameter in the shrinker's order; the first
\* candidate whose replay fails replaces that parameter, the candidate
\* differing from the current steps in that parameter only, and the next
\* pass starts at the first step; while the shrink budget lasts the phase
\* ends only after a pass over all steps without a substitution.
C34_ParamShrinkOneStepAtATime ==
  /\ [][(pc = "paramPass" /\ pc' = "paramCandidates") =>
          LET Listed(step, cmd) == /\ loops'.params.candidates = Shrink(cmd.arb, step.param)
                                   /\ loops'.params.j = 1
                                   /\ loops'.params.i = loops.params.i
          IN  Listed(state.steps[loops.params.i + 1],
                     specIn.commands[state.steps[loops.params.i + 1].commandIndex + 1])]_vars
  /\ [][(pc = "paramCandidates" /\ pc' = "paramCandidates") =>
          /\ loops'.params.j = loops.params.j + 1
          /\ loops'.params.i = loops.params.i
          /\ state'.steps = state.steps]_vars
  /\ [][(pc \in {"paramPass", "paramCandidates"} /\ pc' = "paramPass") =>
          /\ loops'.params.i = loops.params.i + 1
          /\ state'.steps = state.steps]_vars
  /\ [][(pc \in {"paramPass", "paramCandidates"} /\ state'.steps # state.steps) =>
          LET Candidate(i, k) ==
                [idx \in 1..Len(state.steps) |->
                   IF idx = i + 1
                     THEN [commandIndex |-> state.steps[idx].commandIndex,
                           param |-> loops.params.candidates[k]]
                     ELSE state.steps[idx]]
              Fails(i, k) == replaySequence(specIn, Candidate(i, k)).result.failed
              FirstFailing(i, j) == /\ state'.steps = Candidate(i, j)
                                    /\ Fails(i, j)
                                    /\ \A k \in 1..(j - 1) : ~Fails(i, k)
          IN  /\ pc = "paramCandidates"
              /\ pc' = "shrinkParams"
              /\ FirstFailing(loops.params.i, loops.params.j)
              /\ loops'.params.passImproved]_vars
  /\ [][(pc = "shrinkParams" /\ state.shrinks < run.maxShrinks) =>
          IF loops.params.passImproved
            THEN pc' = "paramPass" /\ loops'.params.i = 0
            ELSE /\ pc' = "shrinkSequence"
                 /\ loops.params.i = Len(state.steps)]_vars

\* a second pass of parameter shrinking at its first step, after the second
\* or a later candidate of a step replaced that step's parameter
C34_Witness ==
  /\ pc = "paramPass"
  /\ loops.params.i = 0
  /\ loops.params.anyImproved
  /\ loops.params.j >= 2
  /\ Len(state.steps) >= 2
  /\ state.shrinks < run.maxShrinks

\* C35: for a value v of gen.int(min, max) other than the target (0 if 0 is
\* in the range, else min), the shrinker yields a finite non-empty sequence
\* of values in [min, max], each the midpoint of the previous one (v at
\* first) and the target, rounded toward the target, and strictly closer to
\* the target, the last one being the target; for the target it yields
\* nothing.
C35_IntShrinkBisectsToTarget ==
  LET Abs(n) == IF n < 0 THEN -n ELSE n
      Midpoint(current, target) == IF current > target THEN (current + target) \div 2
                                   ELSE -((-(current + target)) \div 2)
      Bisects(v, target, yielded, complete) ==
        /\ \A k \in 1..Len(yielded) :
             /\ yielded[k].n >= arbIn.min
             /\ yielded[k].n <= arbIn.max
             /\ yielded[k].n = Midpoint(IF k = 1 THEN v ELSE yielded[k - 1].n, target)
             /\ Abs(yielded[k].n - target) < Abs((IF k = 1 THEN v ELSE yielded[k - 1].n) - target)
        /\ complete => IF v = target THEN yielded = <<>>
                       ELSE yielded # <<>> /\ yielded[Len(yielded)].n = target
        /\ Len(yielded) <= Abs(v - target)
      Target(min, max) == IF 0 >= min /\ 0 <= max THEN 0 ELSE min
  IN  /\ (arbIn.kind = "int" /\ pc = "shrunk") =>
           Bisects(result.n, Target(arbIn.min, arbIn.max), sel, TRUE)
      /\ (arbIn.kind = "int2p53" /\ pc \in {"shrinkInt", "shrunk"}) =>
           Bisects(result.n, arbIn.min, sel, pc = "shrunk")

\* C36: the counterexample of a property failure is a value the predicate
\* was seen to fail on: the generated value of the failing trial or a shrink
\* candidate whose evaluation failed, never a candidate that passed or that
\* was not evaluated.
C36_CounterexampleSeenFailing ==
  PropertyFailed =>
    \E k \in 1..Len(log) :
      /\ log[k].fn = "predicate"
      /\ log[k].iteration = result.failure.iterations
      /\ log[k].value = result.failure.counterexample
      /\ log[k].failed

\* a failure whose counterexample is a shrink candidate, reported after a
\* smaller candidate passed and as many candidates were evaluated as the
\* budget allows
C36_Witness ==
  /\ PropertyFailed
  /\ result.failure.counterexample # trial.value
  /\ \E k \in 1..Len(log) :
       /\ log[k].fn = "predicate"
       /\ log[k].phase = "shrink"
       /\ ~log[k].failed
       /\ scoreValue(log[k].value) < scoreValue(result.failure.counterexample)
  /\ Len(ShrinkLog) = run.maxShrinks

\* C37: failure.error of a property failure is the value the predicate
\* threw on failure.counterexample, and it is absent (undefined) when the
\* predicate returned false on that counterexample.
C37_ErrorBelongsToCounterexample ==
  PropertyFailed =>
    LET ErrorOf(outcome) == IF outcome.kind = "throw" THEN outcome.value ELSE Undefined
    IN  result.failure.error = ErrorOf(PredOutcome(predIn, result.failure.counterexample))

\* C38: while a failing sequence is shrunk, every change of the steps leaves
\* an order-preserving subsequence of the commands it had before, so that
\* the commands are at every point a subsequence of those of the generated
\* failing sequence and the length never increases; the reported sequence
\* names the commands of the steps that are left.
C38_SequenceOnlyLosesSteps ==
  /\ [][(state # None /\ state' # None) =>
          LET RECURSIVE Within(_, _, _, _)
              \* a from its index i on is a subsequence of b from its index j on
              Within(a, i, b, j) ==
                IF i > Len(a) THEN TRUE
                ELSE IF j > Len(b) THEN FALSE
                ELSE IF a[i].commandIndex = b[j].commandIndex THEN Within(a, i + 1, b, j + 1)
                ELSE Within(a, i, b, j + 1)
          IN  /\ Within(state'.steps, 1, state.steps, 1)
              /\ Len(state'.steps) <= Len(state.steps)]_vars
  /\ [](specIn # None /\ result # None /\ ~result.ok =>
          /\ Len(result.failure.sequence) = Len(state.steps)
          /\ \A k \in 1..Len(state.steps) :
               result.failure.sequence[k].name =
                 specIn.commands[state.steps[k].commandIndex + 1].name)

\* a reported failure of two steps that use both commands of the spec,
\* after the replay of a sequence without a chunk failed and a parameter
\* was tried
C38_Witness ==
  /\ specIn # None
  /\ result # None
  /\ ~result.ok
  /\ Len(state.steps) = 2
  /\ state.steps[1].commandIndex # state.steps[2].commandIndex
  /\ \E i, j \in 1..Len(log) :
       /\ log[i].phase = "chunks"
       /\ log[i].fn = "check"
       /\ log[i].outcome = Returns(Bool(FALSE))
       /\ log[j].phase = "params"
       /\ i < j

\* C39: a failure that runModel returns with shrinks < maxShrinks fails at
\* the last step of the reported sequence.
C39_FailedStepIsLast ==
  (specIn # None /\ result # None /\ ~result.ok
     /\ result.failure.shrinks < run.maxShrinks) =>
    result.failure.failedStep = Len(result.failure.sequence) - 1

\* a failure reported within the budget after a replay with a shrunk
\* parameter failed before its last step and the steps behind the failing
\* one were removed in the next round of chunk removal
C39_Witness ==
  /\ specIn # None
  /\ result # None
  /\ ~result.ok
  /\ result.failure.shrinks < run.maxShrinks
  /\ result.failure.failedStep = Len(result.failure.sequence) - 1
  /\ \E i, j \in 1..Len(log) :
       /\ i < j
       /\ log[i].phase = "params"
       /\ log[i].fn = "check"
       /\ log[i].outcome = Returns(Bool(FALSE))
       /\ log[j].phase = "chunks"
       /\ log[j].fn = "check"
       /\ log[j].outcome = Returns(Bool(FALSE))

====
